---- MODULE Spec2Model ----
(***************************************************************************)
(* Finance tracker: the in-memory store (MemStorage), its spending         *)
(* aggregation, its backup/restore, and the route layer in front of it.    *)
(*                                                                         *)
(* A JavaScript Map is a sequence of entries <<key, val>> in insertion     *)
(* order: set() on a present key replaces the value in place, set() on a   *)
(* new key appends, delete() removes the entry.                            *)
(*                                                                         *)
(* Entity fields that the code only copies (User.name,                     *)
(* Transaction.description, Income.source, Budget.period, Goal.name,       *)
(* Goal.targetAmount) are left out of the records; Transaction.recurring   *)
(* and Income.recurring are normalised by the code exactly as              *)
(* Transaction.note is (x || default) and are represented by note.         *)
(*                                                                         *)
(* session is the session store, the user each client's cookie stands for; *)
(* the specifications of the entity routes take req.user as an input of    *)
(* the request instead. restoring holds the restoreBackup calls in flight  *)
(* and the microtask queue that orders them. panel is the state of the     *)
(* client's BackupRestorePanel and its restore requests in flight.         *)
(***************************************************************************)
EXTENDS Integers, Sequences, FiniteSets, TLC

VARIABLES storage, now, last, calls, session, restoring, panel

vars == <<storage, now, last, calls, session, restoring, panel>>

---------------------------------------------------------------------------
(* Bounds of the model *)

\* largest number of calls that write to the store
MaxCalls == 3
\* largest number of POST, PATCH and DELETE requests
MaxRequests == 2
\* last instant of the clock
MaxTime == 2
\* longest transaction list of the aggregation inputs
MaxTx == 4

\* the transactions in a backup given to one of two concurrent restores
MaxBackupRows == 2

Users == {1, 2}

\* req.user of a request that carries no authenticated session
NoUser == 0

\* the browsers that hold a session cookie
Clients == {"c1", "c2"}

\* the session store (MemoryStore) at start: no session holds a user
NewSessionStore == [c \in Clients |-> NoUser]

\* BackupRestorePanel as mounted: useState("") for restoreData, an idle
\* restoreMutation, no request sent
NewPanel == [restoreData |-> "", isPending |-> FALSE, requests |-> <<>>]

\* JavaScript null / undefined for a text field
NullValue == "<null>"
\* JavaScript undefined for a date field (dates are instants 1, 2, ...)
NoDate == 0

Dates == 1..2

CollectionNames == {"transactions", "incomes", "budgets", "goals", "categories"}

---------------------------------------------------------------------------
(* Map<number, T> *)

Range(s) == {s[i] : i \in DOMAIN s}

MapHas(m, k) == \E i \in DOMAIN m : m[i].key = k

MapGet(m, k) == (CHOOSE e \in Range(m) : e.key = k).val

MapSet(m, k, v) ==
  IF MapHas(m, k)
    THEN [i \in DOMAIN m |-> IF m[i].key = k THEN [key |-> k, val |-> v] ELSE m[i]]
    ELSE Append(m, [key |-> k, val |-> v])

MapDelete(m, k) == SelectSeq(m, LAMBDA e : e.key # k)

MapValues(m) == [i \in DOMAIN m |-> m[i].val]

MapKeys(m) == {m[i].key : i \in DOMAIN m}

\* { ...obj, ...update }: the fields of update replace those of obj
Spread(obj, update) ==
  [f \in DOMAIN obj \cup DOMAIN update |->
     IF f \in DOMAIN update THEN update[f] ELSE obj[f]]

\* x || d   for a text field
OrElse(x, d) == IF x = NullValue \/ x = "" THEN d ELSE x

\* JavaScript undefined for a numeric field
NoAmount == -999

\* x || 0   for a numeric field
OrZero(x) == IF x = NoAmount THEN 0 ELSE x

\* x || new Date()   for a date field: every Date object is truthy
DateOrNow(x, clock) == IF x = NoDate THEN clock ELSE x

\* A date that arrives in a JSON body is the text toISOString() wrote, not a
\* Date object; the text of instant d is told from the Date of instant d by
\* its sign
ISOString(d) == 0 - d

\* x is a Date object
IsDate(x) == x > 0

\* new Date(x).getTime() for a Date object or an ISO text
InstantOf(x) == IF IsDate(x) THEN x ELSE 0 - x

\* the comparator (a, b) => b.date.getTime() - a.date.getTime() throws a
\* TypeError on an element whose date is no Date object; sort hands every
\* element of a list of two or more to the comparator, and none of a shorter
\* list
SortThrows(rows) == Len(rows) >= 2 /\ \E i \in DOMAIN rows : ~IsDate(rows[i].date)

\* Array.prototype.sort((a, b) => b.date.getTime() - a.date.getTime()):
\* descending by date, stable
RECURSIVE SortByDateDesc(_)
SortByDateDesc(s) ==
  IF s = <<>> THEN <<>>
  ELSE LET n == Len(s)
           x == s[n]
           rest == SortByDateDesc(SubSeq(s, 1, n - 1))
           before == SelectSeq(rest, LAMBDA y : y.date >= x.date)
           after == SelectSeq(rest, LAMBDA y : y.date < x.date)
       IN before \o <<x>> \o after

\* a filter that lets every row through
ByAnyUser(m, userId) == MapValues(m)

ByUser(m, userId) == SelectSeq(MapValues(m), LAMBDA v : v.userId = userId)

---------------------------------------------------------------------------
(* MemStorage *)

NewMemStorage ==
  [users |-> <<>>, notifications |-> <<>>, transactions |-> <<>>, categories |-> <<>>,
   incomes |-> <<>>, budgets |-> <<>>, goals |-> <<>>,
   currentUserId |-> 1, currentNotificationId |-> 1,
   currentTransactionId |-> 1, currentCategoryId |-> 1, currentIncomeId |-> 1,
   currentBudgetId |-> 1, currentGoalId |-> 1]

createNotification(S, ins, clock) ==
  LET id == S.currentNotificationId
      notification == [id |-> id, userId |-> ins.userId, message |-> ins.message,
                       createdAt |-> clock, read |-> (ins.read = TRUE)]
  IN [S EXCEPT !.currentNotificationId = id + 1,
               !.notifications = MapSet(@, id, notification)]

\* Array.prototype.find: the first element that satisfies the test, as a
\* sequence of one element, or the empty sequence for undefined
Find(list, Test(_)) ==
  LET found == SelectSeq(list, Test)
  IN IF found = <<>> THEN <<>> ELSE <<found[1]>>

getUser(S, id) == IF MapHas(S.users, id) THEN <<MapGet(S.users, id)>> ELSE <<>>

getUserByUsername(S, username) ==
  Find(MapValues(S.users), LAMBDA user : user.username = username)

\* a lookup that finds nobody
NoSuchUser(S, email) == <<>>

getUserByEmail(S, email) ==
  Find(MapValues(S.users), LAMBDA user : user.email = email)

createUser(S, ins, clock) ==
  LET id == S.currentUserId
      user == [id |-> id, username |-> ins.username, email |-> ins.email,
               password |-> ins.password, createdAt |-> clock]
  IN [S EXCEPT !.currentUserId = id + 1,
               !.users = MapSet(@, id, user)]

\* Array.prototype.sort((a, b) => b.createdAt.getTime() - a.createdAt.getTime()):
\* descending by createdAt, stable
RECURSIVE SortByCreatedAtDesc(_)
SortByCreatedAtDesc(s) ==
  IF s = <<>> THEN <<>>
  ELSE LET n == Len(s)
           x == s[n]
           rest == SortByCreatedAtDesc(SubSeq(s, 1, n - 1))
           before == SelectSeq(rest, LAMBDA y : y.createdAt >= x.createdAt)
           after == SelectSeq(rest, LAMBDA y : y.createdAt < x.createdAt)
       IN before \o <<x>> \o after

getNotifications(S, userId) == SortByCreatedAtDesc(ByUser(S.notifications, userId))

\* a mark that flips the flag
toggleNotificationRead(S, id) ==
  IF ~MapHas(S.notifications, id) THEN S
  ELSE [S EXCEPT !.notifications =
          MapSet(@, id, Spread(MapGet(S.notifications, id),
                               [read |-> ~MapGet(S.notifications, id).read]))]

markNotificationAsRead(S, id) ==
  IF ~MapHas(S.notifications, id) THEN S
  ELSE [S EXCEPT !.notifications =
          MapSet(@, id, Spread(MapGet(S.notifications, id), [read |-> TRUE]))]

\* the loop of markAllNotificationsAsRead over the first n of the user's
\* notifications: an unread one is stored again, under the key its id field names
RECURSIVE MarkEach(_, _, _)
MarkEach(S, userNotifications, n) ==
  IF n = 0 THEN S
  ELSE LET S1 == MarkEach(S, userNotifications, n - 1)
           notification == userNotifications[n]
       IN IF ~notification.read
            THEN [S1 EXCEPT !.notifications =
                    MapSet(@, notification.id, Spread(notification, [read |-> TRUE]))]
            ELSE S1

markAllNotificationsAsRead(S, userId) ==
  LET userNotifications == getNotifications(S, userId)
  IN MarkEach(S, userNotifications, Len(userNotifications))

\* getTransactions without its sort
getTransactionsUnsorted(S, userId) == ByUser(S.transactions, userId)

getTransactions(S, userId) == SortByDateDesc(ByUser(S.transactions, userId))

\* getTransactions rejects: its sort throws
getTransactionsThrows(S, userId) == SortThrows(ByUser(S.transactions, userId))

createTransaction(S, ins, clock) ==
  LET id == S.currentTransactionId
      transaction == [id |-> id, userId |-> ins.userId, amount |-> ins.amount,
                      category |-> ins.category, type |-> ins.type,
                      date |-> DateOrNow(ins.date, clock),
                      note |-> OrElse(ins.note, NullValue)]
  IN [S EXCEPT !.currentTransactionId = id + 1,
               !.transactions = MapSet(@, id, transaction)]

getTransactionById(S, id) == MapGet(S.transactions, id)

\* an update that stores the update in place of the row
updateTransactionReplace(S, id, transactionUpdate) ==
  IF ~MapHas(S.transactions, id) THEN S
  ELSE [S EXCEPT !.transactions = MapSet(@, id, transactionUpdate)]

\* what the update methods return: the updated row, or nothing for undefined
\* when the map holds no row under the id
updateResult(m, id, update) ==
  IF ~MapHas(m, id) THEN <<>> ELSE <<Spread(MapGet(m, id), update)>>

updateTransaction(S, id, transactionUpdate) ==
  IF ~MapHas(S.transactions, id) THEN S
  ELSE [S EXCEPT !.transactions =
          MapSet(@, id, Spread(MapGet(S.transactions, id), transactionUpdate))]

deleteTransaction(S, id) == [S EXCEPT !.transactions = MapDelete(@, id)]

getCategories(S, userId) == ByUser(S.categories, userId)

createCategory(S, ins, clock) ==
  LET id == S.currentCategoryId
      category == [id |-> id, userId |-> ins.userId, name |-> ins.name,
                   createdAt |-> clock, type |-> OrElse(ins.type, "expense")]
  IN [S EXCEPT !.currentCategoryId = id + 1,
               !.categories = MapSet(@, id, category)]

\* String.prototype.toLowerCase over the category names in use
toLowerCase(name) == IF name = "Food" THEN "food" ELSE name

getCategoryByName(S, userId, name) ==
  Find(MapValues(S.categories),
       LAMBDA category : /\ category.userId = userId
                         /\ toLowerCase(category.name) = toLowerCase(name))

getIncomes(S, userId) == SortByDateDesc(ByUser(S.incomes, userId))

\* getIncomes rejects: its sort throws
getIncomesThrows(S, userId) == SortThrows(ByUser(S.incomes, userId))

createIncome(S, ins, clock) ==
  LET id == S.currentIncomeId
      income == [id |-> id, userId |-> ins.userId, amount |-> ins.amount,
                 date |-> DateOrNow(ins.date, clock)]
  IN [S EXCEPT !.currentIncomeId = id + 1,
               !.incomes = MapSet(@, id, income)]

updateIncome(S, id, incomeUpdate) ==
  IF ~MapHas(S.incomes, id) THEN S
  ELSE [S EXCEPT !.incomes =
          MapSet(@, id, Spread(MapGet(S.incomes, id), incomeUpdate))]

deleteIncome(S, id) == [S EXCEPT !.incomes = MapDelete(@, id)]

getBudgets(S, userId) == ByUser(S.budgets, userId)

createBudget(S, ins) ==
  LET id == S.currentBudgetId
      budget == [id |-> id, userId |-> ins.userId, category |-> ins.category,
                 amount |-> ins.amount]
  IN [S EXCEPT !.currentBudgetId = id + 1,
               !.budgets = MapSet(@, id, budget)]

\* an update that stores the update under an id the map does not hold
updateBudgetUpsert(S, id, budgetUpdate) ==
  [S EXCEPT !.budgets =
     MapSet(@, id, IF MapHas(S.budgets, id)
                     THEN Spread(MapGet(S.budgets, id), budgetUpdate)
                     ELSE budgetUpdate)]

updateBudget(S, id, budgetUpdate) ==
  IF ~MapHas(S.budgets, id) THEN S
  ELSE [S EXCEPT !.budgets =
          MapSet(@, id, Spread(MapGet(S.budgets, id), budgetUpdate))]

deleteBudget(S, id) == [S EXCEPT !.budgets = MapDelete(@, id)]

getGoals(S, userId) == ByUser(S.goals, userId)

createGoal(S, ins) ==
  LET id == S.currentGoalId
      goal == [id |-> id, userId |-> ins.userId,
               currentAmount |-> OrZero(ins.currentAmount)]
  IN [S EXCEPT !.currentGoalId = id + 1,
               !.goals = MapSet(@, id, goal)]

updateGoal(S, id, goalUpdate) ==
  IF ~MapHas(S.goals, id) THEN S
  ELSE [S EXCEPT !.goals =
          MapSet(@, id, Spread(MapGet(S.goals, id), goalUpdate))]

deleteGoal(S, id) == [S EXCEPT !.goals = MapDelete(@, id)]

---------------------------------------------------------------------------
(* Analytics *)

\* Math.floor in the place of Math.round
FloorPercent(value, totalSpent) == (100 * value) \div totalSpent

\* Math.ceil in the place of Math.round
CeilPercent(value, totalSpent) == (100 * value + totalSpent - 1) \div totalSpent

\* Math.round(value / totalSpent * 100) for totalSpent > 0: the nearest
\* integer, halves rounded up. The quotient is computed exactly; for the
\* amounts of this model a quotient ending in .5 has a total of 8, and the
\* double arithmetic of the code is exact on eighths.
RoundPercent(value, totalSpent) == (200 * value + totalSpent) \div (2 * totalSpent)

\* the result left in the order of categoryMap
Unsorted(s) == s

\* Array.prototype.sort((a, b) => b.value - a.value): descending by value, stable
RECURSIVE SortByValueDesc(_)
SortByValueDesc(s) ==
  IF s = <<>> THEN <<>>
  ELSE LET n == Len(s)
           x == s[n]
           rest == SortByValueDesc(SubSeq(s, 1, n - 1))
           before == SelectSeq(rest, LAMBDA y : y.value >= x.value)
           after == SelectSeq(rest, LAMBDA y : y.value < x.value)
       IN before \o <<x>> \o after

\* the forEach of getSpendingByCategory: categoryMap and totalSpent after the
\* first n expense transactions
RECURSIVE Accumulate(_, _)
Accumulate(expenseTransactions, n) ==
  IF n = 0 THEN [categoryMap |-> <<>>, totalSpent |-> 0]
  ELSE LET acc == Accumulate(expenseTransactions, n - 1)
           category == expenseTransactions[n].category
           amount == expenseTransactions[n].amount
           currentAmount == IF MapHas(acc.categoryMap, category)
                              THEN MapGet(acc.categoryMap, category) ELSE 0
       IN [categoryMap |-> MapSet(acc.categoryMap, category, currentAmount + amount),
           totalSpent |-> acc.totalSpent + amount]

getSpendingByCategory(S, userId) ==
  LET transactions == getTransactions(S, userId)
      expenseTransactions == SelectSeq(transactions, LAMBDA t : t.type = "expense")
      acc == Accumulate(expenseTransactions, Len(expenseTransactions))
      result == [i \in DOMAIN acc.categoryMap |->
                   [category |-> acc.categoryMap[i].key,
                    value |-> acc.categoryMap[i].val,
                    percentage |-> IF acc.totalSpent > 0
                                     THEN RoundPercent(acc.categoryMap[i].val, acc.totalSpent)
                                     ELSE 0]]
  IN SortByValueDesc(result)

\* byCategory is a plain object ({}), not a Map, so the key "__proto__" is
\* not an ordinary key: obj["__proto__"] reads Object.prototype, and
\* obj["__proto__"] = v with v not an object (here the text
\* "[object Object]" + amount) changes nothing and creates no property.
\* The other names Object.prototype defines (constructor, toString, ...) read
\* as functions and would store text; the inputs below use none of them.
ObjectSet(obj, k, v) == IF k = "__proto__" THEN obj ELSE MapSet(obj, k, v)

\* obj[k] || 0 for an ordinary key
ObjectGetOrZero(obj, k) == IF MapHas(obj, k) THEN MapGet(obj, k) ELSE 0

\* the reduce of getSpendingReport
RECURSIVE Reduce(_, _)
Reduce(expenseTransactions, n) ==
  IF n = 0 THEN [total |-> 0, byCategory |-> <<>>]
  ELSE LET acc == Reduce(expenseTransactions, n - 1)
           expense == expenseTransactions[n]
       IN [total |-> acc.total + expense.amount,
           byCategory |->
             ObjectSet(acc.byCategory, expense.category,
                       ObjectGetOrZero(acc.byCategory, expense.category) + expense.amount)]

getSpendingReport(S, userId) ==
  LET transactions == getTransactions(S, userId)
      expenseTransactions == SelectSeq(transactions, LAMBDA t : t.type = "expense")
  IN Reduce(expenseTransactions, Len(expenseTransactions))

---------------------------------------------------------------------------
(* Backup and restore *)

\* createBackup rejects: one of its two sorted reads throws
createBackupThrows(S, userId) ==
  getTransactionsThrows(S, userId) \/ getIncomesThrows(S, userId)

createBackup(S, userId) ==
  [transactions |-> getTransactions(S, userId),
   incomes |-> getIncomes(S, userId),
   budgets |-> getBudgets(S, userId),
   goals |-> getGoals(S, userId),
   categories |-> getCategories(S, userId)]

\* list.forEach(x => map.delete(x.id))
DeleteEach(m, list) == SelectSeq(m, LAMBDA e : e.key \notin {list[i].id : i \in DOMAIN list})

\* data.k && Array.isArray(data.k)
HasArray(data, k) == k \in DOMAIN data.arr

\* the item passed on with the userId it came with
WithUserOfItem(item, userId) == item

\* { ...item, userId }
WithUser(item, userId) == Spread(item, [userId |-> userId])

RECURSIVE RestoreTransactions(_, _, _, _)
RestoreTransactions(S, items, userId, clock) ==
  IF items = <<>> THEN S
  ELSE RestoreTransactions(
         createTransaction(S, WithUser(Head(items), userId), clock),
         Tail(items), userId, clock)

RECURSIVE RestoreIncomes(_, _, _, _)
RestoreIncomes(S, items, userId, clock) ==
  IF items = <<>> THEN S
  ELSE RestoreIncomes(
         createIncome(S, WithUser(Head(items), userId), clock),
         Tail(items), userId, clock)

RECURSIVE RestoreBudgets(_, _, _)
RestoreBudgets(S, items, userId) ==
  IF items = <<>> THEN S
  ELSE RestoreBudgets(
         createBudget(S, WithUser(Head(items), userId)),
         Tail(items), userId)

RECURSIVE RestoreGoals(_, _, _)
RestoreGoals(S, items, userId) ==
  IF items = <<>> THEN S
  ELSE RestoreGoals(
         createGoal(S, WithUser(Head(items), userId)),
         Tail(items), userId)

RECURSIVE RestoreCategories(_, _, _, _)
RestoreCategories(S, items, userId, clock) ==
  IF items = <<>> THEN S
  ELSE RestoreCategories(
         createCategory(S, WithUser(Head(items), userId), clock),
         Tail(items), userId, clock)

\* the store after the five forEach(delete) of restoreBackup
RemoveExisting(S, userId) ==
  LET userTransactions == getTransactions(S, userId)
      userIncomes == getIncomes(S, userId)
      userBudgets == getBudgets(S, userId)
      userGoals == getGoals(S, userId)
      userCategories == getCategories(S, userId)
  IN [S EXCEPT !.transactions = DeleteEach(@, userTransactions),
               !.incomes = DeleteEach(@, userIncomes),
               !.budgets = DeleteEach(@, userBudgets),
               !.goals = DeleteEach(@, userGoals),
               !.categories = DeleteEach(@, userCategories)]

\* restoreBackup: the store it leaves, and whether it threw. The reads of the
\* user's transactions and incomes come first and throw when their sort does,
\* before anything is deleted. Reading data.transactions of a null data throws
\* a TypeError, after the deletes.
restoreBackup(S, userId, data, clock) ==
  LET S0 == RemoveExisting(S, userId)
      S1 == IF HasArray(data, "transactions")
              THEN RestoreTransactions(S0, data.arr.transactions, userId, clock) ELSE S0
      S2 == IF HasArray(data, "incomes")
              THEN RestoreIncomes(S1, data.arr.incomes, userId, clock) ELSE S1
      S3 == IF HasArray(data, "budgets")
              THEN RestoreBudgets(S2, data.arr.budgets, userId) ELSE S2
      S4 == IF HasArray(data, "goals")
              THEN RestoreGoals(S3, data.arr.goals, userId) ELSE S3
      S5 == IF HasArray(data, "categories")
              THEN RestoreCategories(S4, data.arr.categories, userId, clock) ELSE S4
  IN IF getTransactionsThrows(S, userId) \/ getIncomesThrows(S, userId)
       THEN [storage |-> S, threw |-> TRUE]
     ELSE IF data.null THEN [storage |-> S0, threw |-> TRUE]
     ELSE [storage |-> S5, threw |-> FALSE]

---------------------------------------------------------------------------
(* The store driven through its interface (IStorage) *)

Notes == {""}

TransactionInputs ==
  [userId : Users, amount : {50}, category : {"food"}, type : {"expense"},
   date : Dates, note : {"lunch"}]

IncomeInputs == [userId : Users, amount : {50}, date : Dates]

BudgetInputs == [userId : {1}, category : {"food"}, amount : {50}]

GoalInputs == [userId : {1}, currentAmount : {NoAmount}]

CategoryInputs == [userId : Users, name : {"Food"}, type : {NullValue}]

\* the ids a call names, and the ids an update writes
Ids == {1, 2}

\* Partial<T>: one field at a time; a larger update is a sequence of these
Partial(field, values) == {(field :> v) : v \in values}

TransactionUpdates ==
  Partial("id", {2}) \cup Partial("userId", Users) \cup Partial("note", Notes)

IncomeUpdates == Partial("id", {2}) \cup Partial("userId", {2})

BudgetUpdates == Partial("id", {2}) \cup Partial("userId", {2})

GoalUpdates == Partial("id", {2}) \cup Partial("userId", {2})

\* a backup object as the data argument of restoreBackup
AsData(backup, keys) == [null |-> FALSE, arr |-> [k \in keys |-> backup[k]]]

NullData == [null |-> TRUE, arr |-> <<>>]

\* the data given to restoreBackup, described: null, or a backup of user
\* `from` taken from the present store, with the collection keys `keys`
RestoreInputs ==
  {[null |-> TRUE, from |-> 0, keys |-> {}]} \cup
  {[null |-> FALSE, from |-> v, keys |-> CollectionNames] : v \in Users} \cup
  {[null |-> FALSE, from |-> 1, keys |-> CollectionNames \ {k}] : k \in CollectionNames}

DataOf(S, input) ==
  IF input.null THEN NullData ELSE AsData(createBackup(S, input.from), input.keys)

\* the last call on the store: the operation, the user it was made for, its
\* argument as far as the properties below need it, and what it returned
Call(op, userId, arg, ret) == [op |-> op, userId |-> userId, arg |-> arg, ret |-> ret]

Init ==
  /\ storage = NewMemStorage
  /\ now = 1
  /\ last = Call("new", 0, <<>>, <<>>)
  /\ session = NewSessionStore
  /\ restoring = <<>>
  /\ panel = NewPanel
  /\ calls = 0

Tick ==
  /\ now < MaxTime
  /\ now' = now + 1
  /\ UNCHANGED <<storage, last, calls, session, restoring, panel>>

\* a call that writes
Write(S, call) ==
  /\ calls' = calls + 1
  /\ storage' = S
  /\ last' = call
  /\ UNCHANGED <<now, session, restoring, panel>>

CreateTransaction ==
  /\ calls < MaxCalls
  /\ \E ins \in TransactionInputs :
      Write(createTransaction(storage, ins, now),
            Call("createTransaction", ins.userId, <<>>, <<>>))

UpdateTransaction ==
  /\ calls < MaxCalls
  /\ \E id \in Ids, upd \in TransactionUpdates :
      Write(updateTransaction(storage, id, upd),
            Call("updateTransaction", 0, <<>>, <<>>))

DeleteTransaction ==
  /\ calls < MaxCalls
  /\ \E id \in Ids :
      Write(deleteTransaction(storage, id),
            Call("deleteTransaction", 0, <<>>, <<>>))

CreateIncome ==
  /\ calls < MaxCalls
  /\ \E ins \in IncomeInputs :
      Write(createIncome(storage, ins, now), Call("createIncome", ins.userId, <<>>, <<>>))

UpdateIncome ==
  /\ calls < MaxCalls
  /\ \E id \in Ids, upd \in IncomeUpdates :
      Write(updateIncome(storage, id, upd),
            Call("updateIncome", 0, <<>>, <<>>))

DeleteIncome ==
  /\ calls < MaxCalls
  /\ \E id \in Ids :
      Write(deleteIncome(storage, id),
            Call("deleteIncome", 0, <<>>, <<>>))

CreateBudget ==
  /\ calls < MaxCalls
  /\ \E ins \in BudgetInputs :
      Write(createBudget(storage, ins), Call("createBudget", ins.userId, <<>>, <<>>))

UpdateBudget ==
  /\ calls < MaxCalls
  /\ \E id \in Ids, upd \in BudgetUpdates :
      Write(updateBudget(storage, id, upd),
            Call("updateBudget", 0, <<>>, <<>>))

DeleteBudget ==
  /\ calls < MaxCalls
  /\ \E id \in Ids :
      Write(deleteBudget(storage, id),
            Call("deleteBudget", 0, <<>>, <<>>))

CreateGoal ==
  /\ calls < MaxCalls
  /\ \E ins \in GoalInputs :
      Write(createGoal(storage, ins), Call("createGoal", ins.userId, <<>>, <<>>))

UpdateGoal ==
  /\ calls < MaxCalls
  /\ \E id \in Ids, upd \in GoalUpdates :
      Write(updateGoal(storage, id, upd),
            Call("updateGoal", 0, <<>>, <<>>))

DeleteGoal ==
  /\ calls < MaxCalls
  /\ \E id \in Ids :
      Write(deleteGoal(storage, id),
            Call("deleteGoal", 0, <<>>, <<>>))

CreateCategory ==
  /\ calls < MaxCalls
  /\ \E ins \in CategoryInputs :
      Write(createCategory(storage, ins, now), Call("createCategory", ins.userId, <<>>, <<>>))

CreateBackup ==
  /\ \E userId \in Users :
       last' = Call("createBackup", userId, <<>>, createBackup(storage, userId))
  /\ UNCHANGED <<storage, now, calls, session, restoring, panel>>

RestoreBackup ==
  /\ calls < MaxCalls
  /\ \E userId \in Users, input \in RestoreInputs :
      LET r == restoreBackup(storage, userId, DataOf(storage, input), now)
      IN Write(r.storage, Call("restoreBackup", userId, input, r.threw))

Next ==
  \/ Tick
  \/ CreateTransaction \/ UpdateTransaction \/ DeleteTransaction
  \/ CreateIncome \/ UpdateIncome \/ DeleteIncome
  \/ CreateBudget \/ UpdateBudget \/ DeleteBudget
  \/ CreateGoal \/ UpdateGoal \/ DeleteGoal
  \/ CreateCategory
  \/ CreateBackup
  \/ RestoreBackup

Spec == Init /\ [][Next]_vars

---------------------------------------------------------------------------
(* Properties of backup and restore *)

\* a row without its id field
StripId(r) == [f \in DOMAIN r \ {"id"} |-> r[f]]

\* the multiset of the rows of a list, ids ignored
BagIgnoringIds(s) ==
  LET R == {StripId(s[i]) : i \in DOMAIN s}
  IN [x \in R |-> Cardinality({i \in DOMAIN s : StripId(s[i]) = x})]

\* the multiset of the rows of a list
BagOf(s) == [x \in Range(s) |-> Cardinality({i \in DOMAIN s : s[i] = x})]

\* the step just taken is restoreBackup(u, DataOf(storage, input))
RestoreStep(u, input) ==
  /\ calls' = calls + 1
  /\ last'.op = "restoreBackup"
  /\ last'.userId = u
  /\ last'.arg = input

WholeBackupOf(u) == [null |-> FALSE, from |-> u, keys |-> CollectionNames]

\* the id counter of a collection
Counter(S, k) ==
  CASE k = "transactions" -> S.currentTransactionId
    [] k = "incomes" -> S.currentIncomeId
    [] k = "budgets" -> S.currentBudgetId
    [] k = "goals" -> S.currentGoalId
    [] k = "categories" -> S.currentCategoryId

\* C1: restoring a user's own backup right after taking it leaves, in each of
\* the five collections, the same multiset of that user's rows, ids ignored.
C1_RoundTrip ==
  [][\A u \in Users :
       RestoreStep(u, WholeBackupOf(u)) =>
         \A k \in CollectionNames :
           BagIgnoringIds(createBackup(storage', u)[k])
             = BagIgnoringIds(createBackup(storage, u)[k])]_vars

\* C2: a restore whose data lacks a collection key does not throw, leaves the
\* user with no row of that collection, and leaves one row per item of data in
\* every collection whose key is present.
C2_AbsentKeyCleared ==
  [][\A u \in Users, input \in RestoreInputs :
       (RestoreStep(u, input) /\ ~input.null /\ input.keys # CollectionNames) =>
         /\ last'.ret = FALSE
         /\ \A k \in CollectionNames \ input.keys :
              createBackup(storage', u)[k] = <<>>
         /\ \A k \in input.keys :
              Len(createBackup(storage', u)[k]) = Len(DataOf(storage, input).arr[k])]_vars

\* C3: restore deletes every row the user had, in all five collections (no
\* entry the store held before is among the user's rows afterwards), and a
\* restore that throws leaves the user with no rows at all: nothing is rolled
\* back.
C3_NoRollback ==
  [][\A u \in Users, input \in RestoreInputs :
       RestoreStep(u, input) =>
         /\ \A k \in CollectionNames :
              \A i \in DOMAIN storage'[k] :
                storage'[k][i].val.userId = u
                  => storage'[k][i].key \notin MapKeys(storage[k])
         /\ (last'.ret = TRUE =>
               \A k \in CollectionNames : createBackup(storage', u)[k] = <<>>)]_vars

\* the ids a collection has handed out lie below its counter, and the counter
\* never goes back
IdsBelowCounter ==
  \A k \in CollectionNames :
    /\ Counter(storage', k) >= Counter(storage, k)
    /\ \A i \in DOMAIN storage'[k] : storage'[k][i].key < Counter(storage', k)

\* C4: every row a restore inserts belongs to the restoring user, whatever
\* userId the item carried, and carries an id the collection's counter hands
\* out in that call, whatever id the item carried: the ids handed out before
\* lie below the counter, so none of them is given again. Each item of data
\* yields one such row.
C4_RestoredRowsFresh ==
  [][/\ IdsBelowCounter
     /\ \A u \in Users, input \in RestoreInputs :
          (RestoreStep(u, input) /\ ~input.null) =>
            \A k \in CollectionNames :
              LET inserted == SelectSeq(storage'[k], LAMBDA e : e \notin Range(storage[k]))
                  items == IF k \in input.keys THEN DataOf(storage, input).arr[k] ELSE <<>>
              IN /\ Len(inserted) = Len(items)
                 /\ Counter(storage', k) = Counter(storage, k) + Len(items)
                 /\ \A i \in DOMAIN inserted :
                      /\ inserted[i].val.userId = u
                      /\ inserted[i].val.id = inserted[i].key
                      /\ inserted[i].key = Counter(storage, k) + i - 1
                      /\ ~MapHas(storage[k], inserted[i].key)]_vars

\* C4 witness: a user has restored the other user's backup and holds rows from it
C4_Witness ==
  /\ last.op = "restoreBackup"
  /\ ~last.arg.null
  /\ last.arg.from # last.userId
  /\ \E i \in DOMAIN storage.transactions :
       /\ storage.transactions[i].val.userId = last.userId
       /\ storage.transactions[i].key > 1

\* C5 as claimed: each array of a backup lists the user's rows in the insertion
\* order of the map, transactions and incomes included.
C5_InsertionOrder ==
  last.op = "createBackup" =>
    \A k \in CollectionNames : last.ret[k] = ByUser(storage[k], last.userId)

\* sorted by date, newest first, rows of equal date in the order of `source`
NewestFirstOf(list, source) ==
  /\ BagOf(list) = BagOf(source)
  /\ \A i \in 1..(Len(list) - 1) : list[i].date >= list[i + 1].date
  /\ \A d \in {source[i].date : i \in DOMAIN source} :
       SelectSeq(list, LAMBDA r : r.date = d) = SelectSeq(source, LAMBDA r : r.date = d)

\* C5 amended: a backup holds five arrays, each with all and only the user's
\* rows of that type: budgets, goals and categories in insertion order,
\* transactions and incomes by date, newest first (equal dates in insertion order).
C5_BackupContents ==
  last.op = "createBackup" =>
    LET u == last.userId
        b == last.ret
    IN /\ DOMAIN b = CollectionNames
       /\ \A k \in {"budgets", "goals", "categories"} : b[k] = ByUser(storage[k], u)
       /\ \A k \in {"transactions", "incomes"} : NewestFirstOf(b[k], ByUser(storage[k], u))

\* C5 witness: a backup of a user whose older transaction was inserted first
C5_Witness ==
  /\ last.op = "createBackup"
  /\ Len(last.ret.transactions) = 2
  /\ last.ret.transactions[1].date > last.ret.transactions[2].date
  /\ last.ret.transactions # ByUser(storage.transactions, last.userId)
  /\ Len(last.ret.incomes) = 1

---------------------------------------------------------------------------
(* The aggregation applied to stores of bounded transaction lists *)

\* the transactions the lists are made of: expenses of user 1 in four
\* categories (amounts 1 and 3 in food and transport, 3 in rent, 1 in
\* "__proto__"), a refund entered as a negative expense, an income of user 1,
\* and an expense of user 2
AggInputs ==
  [userId : {1}, amount : {1, 3}, category : {"food", "transport"}, type : {"expense"},
   date : {1}, note : {NullValue}]
  \cup
  {[userId |-> 1, amount |-> 3, category |-> "rent", type |-> "expense",
    date |-> 1, note |-> NullValue],
   [userId |-> 1, amount |-> 1, category |-> "__proto__", type |-> "expense",
    date |-> 1, note |-> NullValue],
   [userId |-> 1, amount |-> -1, category |-> "food", type |-> "expense",
    date |-> 1, note |-> NullValue],
   [userId |-> 1, amount |-> 3, category |-> "food", type |-> "income",
    date |-> 1, note |-> NullValue],
   [userId |-> 2, amount |-> 3, category |-> "food", type |-> "expense",
    date |-> 1, note |-> NullValue]}

RECURSIVE CreateAll(_, _, _)
CreateAll(S, inputs, clock) ==
  IF inputs = <<>> THEN S
  ELSE CreateAll(createTransaction(S, Head(inputs), clock), Tail(inputs), clock)

InitAgg ==
  /\ \E n \in 0..MaxTx :
       \E inputs \in [1..n -> AggInputs] :
         /\ storage = CreateAll(NewMemStorage, inputs, 1)
         /\ calls = n
  /\ now = 1
  /\ last = Call("new", 0, <<>>, <<>>)
  /\ session = NewSessionStore
  /\ restoring = <<>>
  /\ panel = NewPanel

GetSpendingByCategory ==
  /\ \E userId \in Users :
       last' = Call("getSpendingByCategory", userId, <<>>,
                    getSpendingByCategory(storage, userId))
  /\ UNCHANGED <<storage, now, calls, session, restoring, panel>>

GetSpendingReport ==
  /\ \E userId \in Users :
       last' = Call("getSpendingReport", userId, <<>>, getSpendingReport(storage, userId))
  /\ UNCHANGED <<storage, now, calls, session, restoring, panel>>

NextAgg == GetSpendingByCategory \/ GetSpendingReport

SpecAgg == InitAgg /\ [][NextAgg]_vars

---------------------------------------------------------------------------
(* Properties of the aggregation *)

\* the stored expense transactions of a user
ExpensesOf(u) ==
  {i \in DOMAIN storage.transactions :
     /\ storage.transactions[i].val.userId = u
     /\ storage.transactions[i].val.type = "expense"}

RECURSIVE SumAmounts(_)
SumAmounts(I) ==
  IF I = {} THEN 0
  ELSE LET i == CHOOSE x \in I : TRUE
       IN storage.transactions[i].val.amount + SumAmounts(I \ {i})

ExpenseCategoriesOf(u) == {storage.transactions[i].val.category : i \in ExpensesOf(u)}

SpentIn(u, c) ==
  SumAmounts({i \in ExpensesOf(u) : storage.transactions[i].val.category = c})

TotalSpent(u) == SumAmounts(ExpensesOf(u))

\* the integer nearest to 100 * n / d, halves rounded up
NearestPercent(n, d) ==
  IF d > 0 THEN (200 * n + d) \div (2 * d) ELSE (-200 * n - d) \div (-2 * d)

RECURSIVE SumPercentages(_)
SumPercentages(result) ==
  IF result = <<>> THEN 0 ELSE Head(result).percentage + SumPercentages(Tail(result))

RECURSIVE SumValues(_)
SumValues(entries) ==
  IF entries = <<>> THEN 0 ELSE Head(entries).val + SumValues(Tail(entries))

Abs(x) == IF x < 0 THEN -x ELSE x

\* one record per category of the user's expenses, each with the summed value
OneRecordPerCategory(result, u) ==
  /\ {result[i].category : i \in DOMAIN result} = ExpenseCategoriesOf(u)
  /\ Len(result) = Cardinality(ExpenseCategoriesOf(u))
  /\ \A i \in DOMAIN result : result[i].value = SpentIn(u, result[i].category)

C7_ReportTotal ==
  last.op = "getSpendingReport" =>
    /\ last.ret.total = SumValues(last.ret.byCategory)
    /\ MapKeys(last.ret.byCategory) = ExpenseCategoriesOf(last.userId)
    /\ \A i \in DOMAIN last.ret.byCategory :
         last.ret.byCategory[i].val = SpentIn(last.userId, last.ret.byCategory[i].key)

\* the user has expenses, all of positive amount
PositiveExpenses(u) ==
  /\ ExpensesOf(u) # {}
  /\ \A i \in ExpensesOf(u) : storage.transactions[i].val.amount > 0

\* C8 as claimed: over positive expenses the percentages add up to 100 give or
\* take 1.
C8_PercentagesWithinOne ==
  (last.op = "getSpendingByCategory" /\ PositiveExpenses(last.userId)) =>
    Abs(SumPercentages(last.ret) - 100) <= 1

\* C8 amended: over positive expenses the percentages add up to 100 give or
\* take half the number of categories.
C8_PercentagesWithinHalfCount ==
  (last.op = "getSpendingByCategory" /\ PositiveExpenses(last.userId)) =>
    2 * Abs(SumPercentages(last.ret) - 100) <= Len(last.ret)

\* C8 witness: four categories whose percentages add up to 102
C8_Witness ==
  /\ last.op = "getSpendingByCategory"
  /\ PositiveExpenses(last.userId)
  /\ Len(last.ret) = 4
  /\ SumPercentages(last.ret) = 102

\* C9: the records are in non-increasing order of value.
C9_SortedByValue ==
  last.op = "getSpendingByCategory" =>
    \A i \in 1..(Len(last.ret) - 1) : last.ret[i].value >= last.ret[i + 1].value

\* C9 witness: the category met first has the smaller value and is listed last
C9_Witness ==
  /\ last.op = "getSpendingByCategory"
  /\ Len(last.ret) = 2
  /\ last.ret[1].value > last.ret[2].value
  /\ \E i \in ExpensesOf(last.userId) :
       /\ \A j \in ExpensesOf(last.userId) : i <= j
       /\ storage.transactions[i].val.category = last.ret[2].category

---------------------------------------------------------------------------
(* The route layer: /api/transactions *)
(*                                                                         *)
(* A handler runs from its first statement to its response without another *)
(* request in between: every await of a handler is on a MemStorage method   *)
(* that settles at once, so the handler is one chain of microtasks, and     *)
(* Node starts the next request's handler only from a later I/O callback.   *)

\* req.user of a request: the id its session holds, or none
Sessions == Users \cup {NoUser}

\* the value parseInt gives a text that does not start with a digit
NaN == -1

DigitChars == <<"0", "1", "2", "3", "4", "5", "6", "7", "8", "9">>

IsDigit(c) == \E i \in DOMAIN DigitChars : DigitChars[i] = c

DigitValue(c) == (CHOOSE i \in DOMAIN DigitChars : DigitChars[i] = c) - 1

\* the longest prefix of digits of a text
RECURSIVE LeadingDigits(_)
LeadingDigits(text) ==
  IF text = <<>> \/ ~IsDigit(Head(text)) THEN <<>>
  ELSE <<Head(text)>> \o LeadingDigits(Tail(text))

RECURSIVE DecimalValue(_)
DecimalValue(digits) ==
  IF digits = <<>> THEN 0
  ELSE 10 * DecimalValue(SubSeq(digits, 1, Len(digits) - 1))
         + DigitValue(digits[Len(digits)])

\* parseInt(req.params.id) on a text of digits and letters: the number its
\* leading digits spell, NaN when it starts with none
parseInt(text) ==
  IF LeadingDigits(text) = <<>> THEN NaN ELSE DecimalValue(LeadingDigits(text))

\* req.params.id, a text given character by character
Params == {<<"1">>, <<"2">>, <<"2", "x">>, <<"x">>}

isAuthenticated(user) == user # NoUser

Response(status, body) == [status |-> status, body |-> body]

Message(text) == [message |-> text]

\* res.json(row): JSON.stringify writes a Date as its ISO text, and an ISO
\* text as it is
ToJSON(row) == [row EXCEPT !.date = <<"ISO", InstantOf(row.date)>>]

\* JSON.parse of what ToJSON wrote: the date is a text
FromJSON(row) == [row EXCEPT !.date = ISOString(row.date[2])]

\* the security check passed whoever owns the transaction
OwnsAny(transaction, user) == TRUE

\* the security check of the three routes, `transaction.userId !== user.id`,
\* negated
Owns(transaction, user) == transaction.userId = user

\* the request bodies of POST /api/transactions: large and small expenses, an
\* income, a body without amount, and a body that names another owner and an id
PostBodies ==
  [amount : {100, 150}, category : {"food"}, description : {"meal"}, type : {"expense"}]
  \cup
  {[amount |-> 150, category |-> "food", description |-> "pay", type |-> "income"],
   [category |-> "food", description |-> "meal", type |-> "expense"],
   [amount |-> 150, category |-> "food", description |-> "meal", type |-> "expense",
    userId |-> 2, id |-> 2]}

\* the request bodies of PATCH /api/transactions/:id: req.body goes to
\* updateTransaction as it came
PatchBodies ==
  Partial("id", {2}) \cup Partial("userId", Users) \cup Partial("note", {"dinner"})

\* insertTransactionSchema.parse succeeds: the required fields are present
ParseSucceeds(body) == {"amount", "category", "description", "type"} \subseteq DOMAIN body

\* insertTransactionSchema.parse({...req.body, userId: user.id}): the keys the
\* schema does not know are dropped, the optional ones stay undefined
\* (description is copied by the code and is not kept in the rows here)
ParseTransaction(body, user) ==
  [userId |-> user, amount |-> body.amount, category |-> body.category,
   type |-> body.type, date |-> NoDate, note |-> NullValue]

\* the route with a notification for every expense of 100 or more
POST_transactionsFrom100(S, user, body, clock) ==
  IF ~isAuthenticated(user)
    THEN [storage |-> S, res |-> Response(401, Message("Unauthorized"))]
  ELSE IF ~ParseSucceeds(body)
    THEN [storage |-> S, res |-> Response(400, Message("Validation error"))]
  ELSE LET transactionData == ParseTransaction(body, user)
           S1 == createTransaction(S, transactionData, clock)
           transaction == MapGet(S1.transactions, S.currentTransactionId)
           S2 == IF transaction.type = "expense" /\ transaction.amount >= 100
                   THEN createNotification(
                          S1, [userId |-> user,
                               message |-> <<"Large expense", transaction.amount,
                                             transaction.category>>,
                               read |-> FALSE], clock)
                   ELSE S1
       IN [storage |-> S2, res |-> Response(201, ToJSON(transaction))]

POST_transactions(S, user, body, clock) ==
  IF ~isAuthenticated(user)
    THEN [storage |-> S, res |-> Response(401, Message("Unauthorized"))]
  ELSE IF ~ParseSucceeds(body)
    THEN [storage |-> S, res |-> Response(400, Message("Validation error"))]
  ELSE LET transactionData == ParseTransaction(body, user)
           S1 == createTransaction(S, transactionData, clock)
           transaction == MapGet(S1.transactions, S.currentTransactionId)
           S2 == IF transaction.type = "expense" /\ transaction.amount > 100
                   THEN createNotification(
                          S1, [userId |-> user,
                               message |-> <<"Large expense", transaction.amount,
                                             transaction.category>>,
                               read |-> FALSE], clock)
                   ELSE S1
       IN [storage |-> S2, res |-> Response(201, ToJSON(transaction))]

GET_transactions_id(S, user, param) ==
  IF ~isAuthenticated(user)
    THEN [storage |-> S, res |-> Response(401, Message("Unauthorized"))]
  ELSE LET id == parseInt(param)
       IN IF ~MapHas(S.transactions, id)
            THEN [storage |-> S, res |-> Response(404, Message("Transaction not found"))]
          ELSE IF ~Owns(getTransactionById(S, id), user)
            THEN [storage |-> S, res |-> Response(403, Message("Forbidden"))]
          ELSE [storage |-> S, res |-> Response(200, ToJSON(getTransactionById(S, id)))]

PATCH_transactions_id(S, user, param, body) ==
  IF ~isAuthenticated(user)
    THEN [storage |-> S, res |-> Response(401, Message("Unauthorized"))]
  ELSE LET id == parseInt(param)
       IN IF ~MapHas(S.transactions, id)
            THEN [storage |-> S, res |-> Response(404, Message("Transaction not found"))]
          ELSE IF ~Owns(getTransactionById(S, id), user)
            THEN [storage |-> S, res |-> Response(403, Message("Forbidden"))]
          ELSE LET S1 == updateTransaction(S, id, body)
               IN [storage |-> S1,
                   res |-> Response(200, ToJSON(getTransactionById(S1, id)))]

DELETE_transactions_id(S, user, param) ==
  IF ~isAuthenticated(user)
    THEN [storage |-> S, res |-> Response(401, Message("Unauthorized"))]
  ELSE LET id == parseInt(param)
       IN IF ~MapHas(S.transactions, id)
            THEN [storage |-> S, res |-> Response(404, Message("Transaction not found"))]
          ELSE IF ~Owns(getTransactionById(S, id), user)
            THEN [storage |-> S, res |-> Response(403, Message("Forbidden"))]
          ELSE [storage |-> deleteTransaction(S, id),
                res |-> Response(200, Message("Transaction deleted successfully"))]

HttpPostTransaction ==
  /\ calls < MaxRequests
  /\ \E user \in Sessions, body \in PostBodies :
       LET r == POST_transactions(storage, user, body, now)
       IN Write(r.storage, Call("POST /api/transactions", user, [body |-> body], r.res))

HttpGetTransaction ==
  /\ \E user \in Sessions, param \in Params :
       LET r == GET_transactions_id(storage, user, param)
       IN /\ storage' = r.storage
          /\ last' = Call("GET /api/transactions/:id", user, [param |-> param], r.res)
  /\ UNCHANGED <<now, calls, session, restoring, panel>>

HttpPatchTransaction ==
  /\ calls < MaxRequests
  /\ \E user \in Sessions, param \in Params, body \in PatchBodies :
       LET r == PATCH_transactions_id(storage, user, param, body)
       IN Write(r.storage,
                Call("PATCH /api/transactions/:id", user,
                     [param |-> param, body |-> body], r.res))

HttpDeleteTransaction ==
  /\ calls < MaxRequests
  /\ \E user \in Sessions, param \in Params :
       LET r == DELETE_transactions_id(storage, user, param)
       IN Write(r.storage,
                Call("DELETE /api/transactions/:id", user, [param |-> param], r.res))

NextHttp ==
  \/ Tick
  \/ HttpPostTransaction
  \/ HttpGetTransaction
  \/ HttpPatchTransaction
  \/ HttpDeleteTransaction

SpecHttp == Init /\ [][NextHttp]_vars

---------------------------------------------------------------------------
(* Properties of the transaction routes *)

TransactionIdRoutes ==
  {"GET /api/transactions/:id", "PATCH /api/transactions/:id",
   "DELETE /api/transactions/:id"}

\* the step just taken is a request of user B on /api/transactions/:id that
\* names a stored transaction whose userId is not B
NonOwnerRequest(B) ==
  /\ now' = now
  /\ last'.op \in TransactionIdRoutes
  /\ last'.userId = B
  /\ MapHas(storage.transactions, parseInt(last'.arg.param))
  /\ MapGet(storage.transactions, parseInt(last'.arg.param)).userId # B

\* C10: GET, PATCH or DELETE on /api/transactions/:id by an authenticated user
\* who is not the transaction's owner is answered 403 with a message and none
\* of the transaction's data, and leaves the store as it was.
C10_NonOwnerForbidden ==
  [][\A B \in Users :
       NonOwnerRequest(B) =>
         /\ last'.ret = Response(403, Message("Forbidden"))
         /\ storage' = storage]_vars

\* C10 witness: a user has just been refused a PATCH that would have made a
\* transaction of the other user their own
C10_Witness ==
  /\ last.op = "PATCH /api/transactions/:id"
  /\ last.userId \in Users
  /\ last.arg.body = ("userId" :> last.userId)
  /\ last.ret.status = 403
  /\ MapHas(storage.transactions, parseInt(last.arg.param))
  /\ MapGet(storage.transactions, parseInt(last.arg.param)).userId # last.userId

---------------------------------------------------------------------------
(* The route layer: budgets, goals and notifications *)

\* req.params.id of the routes on budgets, goals and notifications
IdParams == {<<"1">>, <<"2", "x">>, <<"x">>}

\* res.json(notification): createdAt is written as its ISO text
NotificationJSON(row) == [row EXCEPT !.createdAt = <<"ISO", row.createdAt>>]

\* the request bodies of POST /api/budgets: a budget, and one without amount
BudgetBodies ==
  {[category |-> "food", amount |-> 50, period |-> "monthly"],
   [category |-> "food", period |-> "monthly"]}

\* insertBudgetSchema.parse succeeds: the required fields are present
ParseBudgetSucceeds(body) == {"category", "amount", "period"} \subseteq DOMAIN body

\* insertBudgetSchema.parse({...req.body, userId: user.id})
ParseBudget(body, user) ==
  [userId |-> user, category |-> body.category, amount |-> body.amount]

\* the request bodies of PATCH /api/budgets/:id
BudgetPatchBodies == Partial("amount", {60}) \cup Partial("userId", {2})

POST_budgets(S, user, body) ==
  IF ~isAuthenticated(user)
    THEN [storage |-> S, res |-> Response(401, Message("Unauthorized"))]
  ELSE IF ~ParseBudgetSucceeds(body)
    THEN [storage |-> S, res |-> Response(400, Message("Validation error"))]
  ELSE LET S1 == createBudget(S, ParseBudget(body, user))
       IN [storage |-> S1, res |-> Response(201, MapGet(S1.budgets, S.currentBudgetId))]

PATCH_budgets_id(S, user, param, body) ==
  IF ~isAuthenticated(user)
    THEN [storage |-> S, res |-> Response(401, Message("Unauthorized"))]
  ELSE LET id == parseInt(param)
           S1 == updateBudget(S, id, body)
       IN IF ~MapHas(S.budgets, id)
            THEN [storage |-> S1, res |-> Response(404, Message("Budget not found"))]
          ELSE [storage |-> S1, res |-> Response(200, MapGet(S1.budgets, id))]

DELETE_budgets_id(S, user, param) ==
  IF ~isAuthenticated(user)
    THEN [storage |-> S, res |-> Response(401, Message("Unauthorized"))]
  ELSE LET id == parseInt(param)
           S1 == deleteBudget(S, id)
       IN IF ~MapHas(S.budgets, id)
            THEN [storage |-> S1, res |-> Response(404, Message("Budget not found"))]
          ELSE [storage |-> S1, res |-> Response(200, Message("Budget deleted successfully"))]

\* the request bodies of POST /api/goals: a goal, and one without targetAmount
GoalBodies ==
  {[name |-> "trip", targetAmount |-> 500],
   [name |-> "trip"]}

\* insertGoalSchema.parse succeeds: the required fields are present
ParseGoalSucceeds(body) == {"name", "targetAmount"} \subseteq DOMAIN body

\* insertGoalSchema.parse({...req.body, userId: user.id}): currentAmount is
\* optional and stays undefined
ParseGoal(body, user) == [userId |-> user, currentAmount |-> NoAmount]

\* the request bodies of PATCH /api/goals/:id
GoalPatchBodies == Partial("currentAmount", {10}) \cup Partial("userId", {2})

POST_goals(S, user, body) ==
  IF ~isAuthenticated(user)
    THEN [storage |-> S, res |-> Response(401, Message("Unauthorized"))]
  ELSE IF ~ParseGoalSucceeds(body)
    THEN [storage |-> S, res |-> Response(400, Message("Validation error"))]
  ELSE LET S1 == createGoal(S, ParseGoal(body, user))
       IN [storage |-> S1, res |-> Response(201, MapGet(S1.goals, S.currentGoalId))]

PATCH_goals_id(S, user, param, body) ==
  IF ~isAuthenticated(user)
    THEN [storage |-> S, res |-> Response(401, Message("Unauthorized"))]
  ELSE LET id == parseInt(param)
           S1 == updateGoal(S, id, body)
       IN IF ~MapHas(S.goals, id)
            THEN [storage |-> S1, res |-> Response(404, Message("Goal not found"))]
          ELSE [storage |-> S1, res |-> Response(200, MapGet(S1.goals, id))]

DELETE_goals_id(S, user, param) ==
  IF ~isAuthenticated(user)
    THEN [storage |-> S, res |-> Response(401, Message("Unauthorized"))]
  ELSE LET id == parseInt(param)
           S1 == deleteGoal(S, id)
       IN IF ~MapHas(S.goals, id)
            THEN [storage |-> S1, res |-> Response(404, Message("Goal not found"))]
          ELSE [storage |-> S1, res |-> Response(200, Message("Goal deleted successfully"))]

\* the request bodies of POST /api/notifications: unread, read, and one
\* without message
NotificationBodies ==
  {[message |-> "hello"], [message |-> "hello", read |-> TRUE], [read |-> TRUE]}

\* insertNotificationSchema.parse succeeds: the required field is present
ParseNotificationSucceeds(body) == "message" \in DOMAIN body

\* insertNotificationSchema.parse({...req.body, userId: user.id}); an absent
\* read stays undefined, which createNotification turns into false
ParseNotification(body, user) ==
  [userId |-> user, message |-> body.message,
   read |-> IF "read" \in DOMAIN body THEN body.read ELSE FALSE]

POST_notifications(S, user, body, clock) ==
  IF ~isAuthenticated(user)
    THEN [storage |-> S, res |-> Response(401, Message("Unauthorized"))]
  ELSE IF ~ParseNotificationSucceeds(body)
    THEN [storage |-> S, res |-> Response(400, Message("Validation error"))]
  ELSE LET S1 == createNotification(S, ParseNotification(body, user), clock)
       IN [storage |-> S1,
           res |-> Response(201, NotificationJSON(
                                   MapGet(S1.notifications, S.currentNotificationId)))]

POST_notifications_id_read(S, user, param) ==
  IF ~isAuthenticated(user)
    THEN [storage |-> S, res |-> Response(401, Message("Unauthorized"))]
  ELSE LET id == parseInt(param)
           S1 == markNotificationAsRead(S, id)
       IN IF ~MapHas(S.notifications, id)
            THEN [storage |-> S1, res |-> Response(404, Message("Notification not found"))]
          ELSE [storage |-> S1,
                res |-> Response(200, NotificationJSON(MapGet(S1.notifications, id)))]

POST_notifications_read_all(S, user) ==
  IF ~isAuthenticated(user)
    THEN [storage |-> S, res |-> Response(401, Message("Unauthorized"))]
  ELSE [storage |-> markAllNotificationsAsRead(S, user),
        res |-> Response(200, Message("All notifications marked as read"))]

HttpPostBudget ==
  /\ calls < MaxRequests
  /\ \E user \in Sessions, body \in BudgetBodies :
       LET r == POST_budgets(storage, user, body)
       IN Write(r.storage, Call("POST /api/budgets", user, [body |-> body], r.res))

HttpPatchBudget ==
  /\ calls < MaxRequests
  /\ \E user \in Sessions, param \in IdParams, body \in BudgetPatchBodies :
       LET r == PATCH_budgets_id(storage, user, param, body)
       IN Write(r.storage,
                Call("PATCH /api/budgets/:id", user, [param |-> param, body |-> body], r.res))

HttpDeleteBudget ==
  /\ calls < MaxRequests
  /\ \E user \in Sessions, param \in IdParams :
       LET r == DELETE_budgets_id(storage, user, param)
       IN Write(r.storage, Call("DELETE /api/budgets/:id", user, [param |-> param], r.res))

HttpPostGoal ==
  /\ calls < MaxRequests
  /\ \E user \in Sessions, body \in GoalBodies :
       LET r == POST_goals(storage, user, body)
       IN Write(r.storage, Call("POST /api/goals", user, [body |-> body], r.res))

HttpPatchGoal ==
  /\ calls < MaxRequests
  /\ \E user \in Sessions, param \in IdParams, body \in GoalPatchBodies :
       LET r == PATCH_goals_id(storage, user, param, body)
       IN Write(r.storage,
                Call("PATCH /api/goals/:id", user, [param |-> param, body |-> body], r.res))

HttpDeleteGoal ==
  /\ calls < MaxRequests
  /\ \E user \in Sessions, param \in IdParams :
       LET r == DELETE_goals_id(storage, user, param)
       IN Write(r.storage, Call("DELETE /api/goals/:id", user, [param |-> param], r.res))

HttpPostNotification ==
  /\ calls < MaxRequests
  /\ \E user \in Sessions, body \in NotificationBodies :
       LET r == POST_notifications(storage, user, body, now)
       IN Write(r.storage, Call("POST /api/notifications", user, [body |-> body], r.res))

HttpReadNotification ==
  /\ calls < MaxRequests
  /\ \E user \in Sessions, param \in IdParams :
       LET r == POST_notifications_id_read(storage, user, param)
       IN Write(r.storage,
                Call("POST /api/notifications/:id/read", user, [param |-> param], r.res))

HttpReadAllNotifications ==
  /\ calls < MaxRequests
  /\ \E user \in Sessions :
       LET r == POST_notifications_read_all(storage, user)
       IN Write(r.storage, Call("POST /api/notifications/read-all", user, <<>>, r.res))

NextEntity ==
  \/ Tick
  \/ HttpPostTransaction \/ HttpGetTransaction
  \/ HttpPatchTransaction \/ HttpDeleteTransaction
  \/ HttpPostBudget \/ HttpPatchBudget \/ HttpDeleteBudget
  \/ HttpPostGoal \/ HttpPatchGoal \/ HttpDeleteGoal
  \/ HttpReadNotification

SpecEntity == Init /\ [][NextEntity]_vars

---------------------------------------------------------------------------
(* Properties of the routes that address an entity by id *)

\* the collection a route on :id addresses
TargetCollection(op) ==
  CASE op \in TransactionIdRoutes -> "transactions"
    [] op \in {"PATCH /api/budgets/:id", "DELETE /api/budgets/:id"} -> "budgets"
    [] op \in {"PATCH /api/goals/:id", "DELETE /api/goals/:id"} -> "goals"
    [] op = "POST /api/notifications/:id/read" -> "notifications"

MutatingIdRoutes ==
  {"PATCH /api/transactions/:id", "DELETE /api/transactions/:id",
   "PATCH /api/budgets/:id", "DELETE /api/budgets/:id",
   "PATCH /api/goals/:id", "DELETE /api/goals/:id",
   "POST /api/notifications/:id/read"}

\* the step just taken is a request of user B on one of `routes` that names a
\* stored entity whose userId is not B
ForeignEntityRequest(B, routes) ==
  /\ now' = now
  /\ last'.op \in routes
  /\ last'.userId = B
  /\ LET entities == storage[TargetCollection(last'.op)]
         id == parseInt(last'.arg.param)
     IN MapHas(entities, id) /\ MapGet(entities, id).userId # B

\* C11: a PATCH or DELETE on a transaction, budget or goal, or a mark-read on
\* a notification, by an authenticated user who is not the entity's owner is
\* answered 403 and leaves the store as it was.
C11_MutationsOwnerOnly ==
  [][\A B \in Users :
       ForeignEntityRequest(B, MutatingIdRoutes) =>
         /\ last'.ret.status = 403
         /\ storage' = storage]_vars

\* the routes that read, change or delete one transaction, budget or goal
EntityIdRoutes ==
  TransactionIdRoutes \cup
  {"PATCH /api/budgets/:id", "DELETE /api/budgets/:id",
   "PATCH /api/goals/:id", "DELETE /api/goals/:id"}

\* the step just taken is a request of user B on one of EntityIdRoutes with an
\* id that the collection does not hold
MissingEntityRequest(B) ==
  /\ now' = now
  /\ last'.op \in EntityIdRoutes
  /\ last'.userId = B
  /\ ~MapHas(storage[TargetCollection(last'.op)], parseInt(last'.arg.param))

\* C13: an authenticated GET, PATCH or DELETE by id on a transaction, budget
\* or goal whose id the store does not hold (never created, or deleted) is
\* answered 404 and leaves the store as it was; a PATCH creates no row.
C13_MissingIdNotFound ==
  [][\A B \in Users :
       MissingEntityRequest(B) =>
         /\ last'.ret.status = 404
         /\ storage' = storage]_vars

\* C13 witness: a transaction that was created and deleted has been asked for
C13_Witness ==
  /\ last.op = "GET /api/transactions/:id"
  /\ last.userId \in Users
  /\ last.ret.status = 404
  /\ parseInt(last.arg.param) >= 1
  /\ parseInt(last.arg.param) < storage.currentTransactionId
  /\ ~MapHas(storage.transactions, parseInt(last.arg.param))

---------------------------------------------------------------------------
(* The route layer: accounts *)

\* the request bodies of POST /api/register (name is only copied by the code
\* and is not kept in the rows here)
RegisterBodies ==
  [username : {"ann", "bob"}, email : {"a@x", "b@x"}, password : {"pw"}]
  \cup {[username |-> "ann", email |-> "a@x", password |-> ""],
        [username |-> "cat", password |-> "pw"]}

\* insertUserSchema.parse succeeds: the required texts are present
ParseUserSucceeds(body) == {"username", "email", "password"} \subseteq DOMAIN body

\* const { password, ...userWithoutPassword } = user, written by res.json
WithoutPassword(user) ==
  [k \in DOMAIN user \ {"password"} |->
     IF k = "createdAt" THEN <<"ISO", user[k]>> ELSE user[k]]

POST_register(S, body, clock) ==
  IF ~ParseUserSucceeds(body)
    THEN [storage |-> S, res |-> Response(400, Message("Validation error"))]
  ELSE IF getUserByUsername(S, body.username) # <<>>
    THEN [storage |-> S, res |-> Response(400, Message("Username already taken"))]
  ELSE IF getUserByEmail(S, body.email) # <<>>
    THEN [storage |-> S, res |-> Response(400, Message("Email already registered"))]
  ELSE LET S1 == createUser(S, body, clock)
           user == MapGet(S1.users, S.currentUserId)
           S2 == createNotification(
                   S1, [userId |-> user.id, message |-> "Welcome to FinTrack!",
                        read |-> FALSE], clock)
       IN [storage |-> S2, res |-> Response(201, WithoutPassword(user))]

\* passport.deserializeUser: req.user of a session that holds the id
deserializeUser(S, id) == getUser(S, id)

GET_me(S, user) ==
  IF ~isAuthenticated(user)
    THEN [storage |-> S, res |-> Response(401, Message("Unauthorized"))]
  ELSE [storage |-> S,
        res |-> Response(200, WithoutPassword(deserializeUser(S, user)[1]))]

---------------------------------------------------------------------------
(* The route layer: lists, categories, incomes, reports, backup, restore *)

\* res.json of a list of rows that hold a date
ListJSON(rows) == [i \in DOMAIN rows |-> ToJSON(rows[i])]

\* res.json of a list of rows that hold a createdAt
CreatedListJSON(rows) == [i \in DOMAIN rows |-> NotificationJSON(rows[i])]

GET_notifications(S, user) ==
  IF ~isAuthenticated(user)
    THEN [storage |-> S, res |-> Response(401, Message("Unauthorized"))]
  ELSE [storage |-> S, res |-> Response(200, CreatedListJSON(getNotifications(S, user)))]

GET_categories(S, user) ==
  IF ~isAuthenticated(user)
    THEN [storage |-> S, res |-> Response(401, Message("Unauthorized"))]
  ELSE [storage |-> S, res |-> Response(200, CreatedListJSON(getCategories(S, user)))]

\* the request bodies of POST /api/categories
CategoryBodies ==
  {[name |-> "Food"], [name |-> "food", type |-> "income"], [type |-> "income"]}

\* insertCategorySchema.parse succeeds
ParseCategorySucceeds(body) == "name" \in DOMAIN body

\* insertCategorySchema.parse({...req.body, userId: user.id})
ParseCategory(body, user) ==
  [userId |-> user, name |-> body.name,
   type |-> IF "type" \in DOMAIN body THEN body.type ELSE NullValue]

POST_categories(S, user, body, clock) ==
  IF ~isAuthenticated(user)
    THEN [storage |-> S, res |-> Response(401, Message("Unauthorized"))]
  ELSE IF ~ParseCategorySucceeds(body)
    THEN [storage |-> S, res |-> Response(400, Message("Validation error"))]
  ELSE LET categoryData == ParseCategory(body, user)
       IN IF getCategoryByName(S, user, categoryData.name) # <<>>
            THEN [storage |-> S,
                  res |-> Response(400, Message("Category with this name already exists"))]
          ELSE LET S1 == createCategory(S, categoryData, clock)
               IN [storage |-> S1,
                   res |-> Response(201, NotificationJSON(
                                           MapGet(S1.categories, S.currentCategoryId)))]

GET_transactions(S, user) ==
  IF ~isAuthenticated(user)
    THEN [storage |-> S, res |-> Response(401, Message("Unauthorized"))]
  ELSE IF getTransactionsThrows(S, user)
    THEN [storage |-> S, res |-> Response(500, Message("Error fetching transactions"))]
  ELSE [storage |-> S, res |-> Response(200, ListJSON(getTransactions(S, user)))]

GET_incomes(S, user) ==
  IF ~isAuthenticated(user)
    THEN [storage |-> S, res |-> Response(401, Message("Unauthorized"))]
  ELSE IF getIncomesThrows(S, user)
    THEN [storage |-> S, res |-> Response(500, Message("Error fetching incomes"))]
  ELSE [storage |-> S, res |-> Response(200, ListJSON(getIncomes(S, user)))]

\* the request bodies of POST /api/incomes (source is only copied by the code
\* and is not kept in the rows here)
IncomeBodies == {[amount |-> 500], [date |-> 1]}

\* insertIncomeSchema.parse succeeds
ParseIncomeSucceeds(body) == "amount" \in DOMAIN body

\* insertIncomeSchema.parse({...req.body, userId: user.id})
ParseIncome(body, user) ==
  [userId |-> user, amount |-> body.amount,
   date |-> IF "date" \in DOMAIN body THEN body.date ELSE NoDate]

POST_incomes(S, user, body, clock) ==
  IF ~isAuthenticated(user)
    THEN [storage |-> S, res |-> Response(401, Message("Unauthorized"))]
  ELSE IF ~ParseIncomeSucceeds(body)
    THEN [storage |-> S, res |-> Response(400, Message("Validation error"))]
  ELSE LET S1 == createIncome(S, ParseIncome(body, user), clock)
       IN [storage |-> S1,
           res |-> Response(201, ToJSON(MapGet(S1.incomes, S.currentIncomeId)))]

GET_budgets(S, user) ==
  IF ~isAuthenticated(user)
    THEN [storage |-> S, res |-> Response(401, Message("Unauthorized"))]
  ELSE [storage |-> S, res |-> Response(200, getBudgets(S, user))]

GET_goals(S, user) ==
  IF ~isAuthenticated(user)
    THEN [storage |-> S, res |-> Response(401, Message("Unauthorized"))]
  ELSE [storage |-> S, res |-> Response(200, getGoals(S, user))]

GET_insights_spending(S, user) ==
  IF ~isAuthenticated(user)
    THEN [storage |-> S, res |-> Response(401, Message("Unauthorized"))]
  ELSE IF getTransactionsThrows(S, user)
    THEN [storage |-> S, res |-> Response(500, Message("Error fetching spending insights"))]
  ELSE [storage |-> S, res |-> Response(200, getSpendingByCategory(S, user))]

GET_reports_spending(S, user) ==
  IF ~isAuthenticated(user)
    THEN [storage |-> S, res |-> Response(401, Message("Unauthorized"))]
  ELSE IF getTransactionsThrows(S, user)
    THEN [storage |-> S, res |-> Response(500, Message("Error generating spending report"))]
  ELSE [storage |-> S, res |-> Response(200, getSpendingReport(S, user))]

\* the CSV of GET /api/reports/download: the header line, then one line per
\* transaction, each line given by its cells
Csv(transactions) ==
  <<<<"Date", "Description", "Category", "Amount", "Type">>>> \o
  [i \in DOMAIN transactions |->
     <<<<"ISO", InstantOf(transactions[i].date)>>, "description", transactions[i].category,
       transactions[i].amount, transactions[i].type>>]

GET_reports_download(S, user) ==
  IF ~isAuthenticated(user)
    THEN [storage |-> S, res |-> Response(401, Message("Unauthorized"))]
  ELSE IF getTransactionsThrows(S, user)
    THEN [storage |-> S, res |-> Response(500, Message("Error downloading report"))]
  ELSE [storage |-> S, res |-> Response(200, Csv(getTransactions(S, user)))]

\* res.json(data) of a backup
BackupJSON(data) ==
  [transactions |-> ListJSON(data.transactions), incomes |-> ListJSON(data.incomes),
   budgets |-> data.budgets, goals |-> data.goals,
   categories |-> CreatedListJSON(data.categories)]

\* the backup route registered without the isAuthenticated middleware
POST_backupOpen(S, user) ==
  [storage |-> S, res |-> Response(200, BackupJSON(createBackup(S, user)))]

POST_backup(S, user) ==
  IF ~isAuthenticated(user)
    THEN [storage |-> S, res |-> Response(401, Message("Unauthorized"))]
  ELSE IF createBackupThrows(S, user)
    THEN [storage |-> S, res |-> Response(500, Message("Error creating backup"))]
  ELSE [storage |-> S, res |-> Response(200, BackupJSON(createBackup(S, user)))]

\* an element of data.transactions that POST /api/transactions would reject:
\* it names no category, and it names an owner and an id of its own
UnvalidatedItem ==
  [id |-> 9, userId |-> 2, amount |-> 70, category |-> NullValue, type |-> "expense",
   date |-> NoDate, note |-> NullValue]

\* two categories whose names differ in letter case only, as a client can
\* write them into the categories of a backup
TwinCategories ==
  <<[name |-> "Food", type |-> "expense"], [name |-> "food", type |-> "expense"]>>

\* the request bodies of POST /api/restore, described: a body without data, or
\* a data object that holds the backup of user `from` under the keys `keys`,
\* something that is no array under the keys `others`, the unvalidated
\* element in front of its transactions when `extra`, and the twin categories
\* in front of its categories when `twins`
RestoreBodyInputs ==
  {[data |-> FALSE, from |-> 1, keys |-> {}, others |-> {}, extra |-> FALSE,
    twins |-> FALSE]} \cup
  {[data |-> TRUE, from |-> v, keys |-> CollectionNames, others |-> {}, extra |-> FALSE,
    twins |-> FALSE] : v \in Users} \cup
  {[data |-> TRUE, from |-> 1, keys |-> CollectionNames, others |-> {}, extra |-> TRUE,
    twins |-> FALSE]} \cup
  {[data |-> TRUE, from |-> 1, keys |-> CollectionNames, others |-> {}, extra |-> FALSE,
    twins |-> TRUE]} \cup
  {[data |-> TRUE, from |-> 1, keys |-> CollectionNames \ {k}, others |-> {},
    extra |-> FALSE, twins |-> FALSE] : k \in {"transactions", "categories"}} \cup
  {[data |-> TRUE, from |-> 1, keys |-> CollectionNames \ {k}, others |-> {k},
    extra |-> FALSE, twins |-> FALSE] : k \in {"budgets"}}

\* JSON.parse of the body POST /api/backup answers with: every date is a text
ParsedBackup(json) ==
  [transactions |-> [i \in DOMAIN json.transactions |-> FromJSON(json.transactions[i])],
   incomes |-> [i \in DOMAIN json.incomes |-> FromJSON(json.incomes[i])],
   budgets |-> json.budgets,
   goals |-> json.goals,
   categories |->
     [i \in DOMAIN json.categories |->
        [json.categories[i] EXCEPT !.createdAt = ISOString(@[2])]]]

\* req.body of POST /api/restore, parsed from JSON
RestoreBodyOf(S, input) ==
  LET backup == ParsedBackup(BackupJSON(createBackup(S, input.from)))
      given == IF input.extra
                 THEN [backup EXCEPT !.transactions = <<UnvalidatedItem>> \o @]
               ELSE IF input.twins
                 THEN [backup EXCEPT !.categories = TwinCategories \o @]
               ELSE backup
  IN [hasData |-> input.data,
      data |-> [null |-> FALSE, arr |-> [k \in input.keys |-> given[k]],
                others |-> input.others]]

\* a schema that asks for a data object and no more
RestoreSchemaLax(body) == body.hasData

\* restoreSchema.parse({...req.body, userId: user.id}) succeeds: data is an
\* object whose five keys each hold an array, of any elements
RestoreSchemaSucceeds(body) ==
  /\ body.hasData
  /\ ~body.data.null
  /\ \A k \in CollectionNames : HasArray(body.data, k)

POST_restore(S, user, body, clock) ==
  IF ~isAuthenticated(user)
    THEN [storage |-> S, res |-> Response(401, Message("Unauthorized"))]
  ELSE IF ~RestoreSchemaSucceeds(body)
    THEN [storage |-> S, res |-> Response(400, Message("Validation error"))]
  ELSE LET r == restoreBackup(S, user, body.data, clock)
       IN IF r.threw
            THEN [storage |-> r.storage,
                  res |-> Response(500, Message("Internal server error"))]
          ELSE [storage |-> createNotification(
                              r.storage,
                              [userId |-> user,
                               message |-> "Your data has been successfully restored.",
                               read |-> FALSE], clock),
                res |-> Response(200, Message("Data restored successfully"))]

---------------------------------------------------------------------------
(* Requests to the remaining protected routes *)

\* a request that only reads
Request(call) == Write(storage, call)

HttpMe ==
  /\ calls < MaxRequests
  /\ \E user \in Sessions :
       Request(Call("GET /api/me", user, <<>>, GET_me(storage, user).res))

HttpGetNotifications ==
  /\ calls < MaxRequests
  /\ \E user \in Sessions :
       Request(Call("GET /api/notifications", user, <<>>,
                    GET_notifications(storage, user).res))

HttpGetCategories ==
  /\ calls < MaxRequests
  /\ \E user \in Sessions :
       Request(Call("GET /api/categories", user, <<>>, GET_categories(storage, user).res))

HttpPostCategory ==
  /\ calls < MaxRequests
  /\ \E user \in Sessions, body \in CategoryBodies :
       LET r == POST_categories(storage, user, body, now)
       IN Write(r.storage, Call("POST /api/categories", user, [body |-> body], r.res))

HttpGetTransactions ==
  /\ calls < MaxRequests
  /\ \E user \in Sessions :
       Request(Call("GET /api/transactions", user, <<>>,
                    GET_transactions(storage, user).res))

HttpGetIncomes ==
  /\ calls < MaxRequests
  /\ \E user \in Sessions :
       Request(Call("GET /api/incomes", user, <<>>, GET_incomes(storage, user).res))

HttpPostIncome ==
  /\ calls < MaxRequests
  /\ \E user \in Sessions, body \in IncomeBodies :
       LET r == POST_incomes(storage, user, body, now)
       IN Write(r.storage, Call("POST /api/incomes", user, [body |-> body], r.res))

HttpGetBudgets ==
  /\ calls < MaxRequests
  /\ \E user \in Sessions :
       Request(Call("GET /api/budgets", user, <<>>, GET_budgets(storage, user).res))

HttpGetGoals ==
  /\ calls < MaxRequests
  /\ \E user \in Sessions :
       Request(Call("GET /api/goals", user, <<>>, GET_goals(storage, user).res))

HttpInsightsSpending ==
  /\ calls < MaxRequests
  /\ \E user \in Sessions :
       Request(Call("GET /api/insights/spending", user, <<>>,
                    GET_insights_spending(storage, user).res))

HttpReportsSpending ==
  /\ calls < MaxRequests
  /\ \E user \in Sessions :
       Request(Call("GET /api/reports/spending", user, <<>>,
                    GET_reports_spending(storage, user).res))

HttpReportsDownload ==
  /\ calls < MaxRequests
  /\ \E user \in Sessions :
       Request(Call("GET /api/reports/download", user, <<>>,
                    GET_reports_download(storage, user).res))

HttpBackup ==
  /\ calls < MaxRequests
  /\ \E user \in Sessions :
       Request(Call("POST /api/backup", user, <<>>, POST_backup(storage, user).res))

HttpRestore ==
  /\ calls < MaxRequests
  /\ \E user \in Sessions, input \in RestoreBodyInputs :
       LET body == RestoreBodyOf(storage, input)
           r == POST_restore(storage, user, body, now)
       IN Write(r.storage, Call("POST /api/restore", user, [body |-> body], r.res))

\* a store in use: two registered users, an expense, a budget and a goal of
\* the first, an expense of the second, each made through its route
Populated ==
  LET S1 == POST_register(NewMemStorage,
                          [username |-> "ann", email |-> "a@x", password |-> "pw"],
                          1).storage
      S2 == POST_register(S1, [username |-> "bob", email |-> "b@x", password |-> "pw"],
                          1).storage
      S3 == POST_transactions(S2, 1, [amount |-> 150, category |-> "food",
                                      description |-> "meal", type |-> "expense"],
                              1).storage
      S4 == POST_budgets(S3, 1, [category |-> "food", amount |-> 50,
                                 period |-> "monthly"]).storage
      S5 == POST_goals(S4, 1, [name |-> "trip", targetAmount |-> 500]).storage
  IN POST_transactions(S5, 2, [amount |-> 100, category |-> "food",
                               description |-> "meal", type |-> "expense"], 1).storage

\* the requests that made the store count as one
InitPopulated ==
  /\ storage = Populated
  /\ now = 1
  /\ last = Call("new", 0, <<>>, <<>>)
  /\ session = NewSessionStore
  /\ restoring = <<>>
  /\ panel = NewPanel
  /\ calls = 1

NextProtected ==
  \/ Tick
  \/ HttpMe
  \/ HttpGetNotifications \/ HttpReadNotification \/ HttpReadAllNotifications
  \/ HttpPostNotification
  \/ HttpGetCategories \/ HttpPostCategory
  \/ HttpGetTransactions \/ HttpPostTransaction \/ HttpGetTransaction
  \/ HttpPatchTransaction \/ HttpDeleteTransaction
  \/ HttpGetIncomes \/ HttpPostIncome
  \/ HttpGetBudgets \/ HttpPostBudget \/ HttpPatchBudget \/ HttpDeleteBudget
  \/ HttpGetGoals \/ HttpPostGoal \/ HttpPatchGoal \/ HttpDeleteGoal
  \/ HttpInsightsSpending \/ HttpReportsSpending \/ HttpReportsDownload
  \/ HttpBackup \/ HttpRestore

SpecProtected == InitPopulated /\ [][NextProtected]_vars

---------------------------------------------------------------------------
(* Properties of the protected routes *)

\* the routes registered behind the isAuthenticated middleware
ProtectedRoutes ==
  {"GET /api/me",
   "GET /api/notifications", "POST /api/notifications/:id/read",
   "POST /api/notifications/read-all", "POST /api/notifications",
   "GET /api/categories", "POST /api/categories",
   "GET /api/transactions", "POST /api/transactions", "GET /api/transactions/:id",
   "PATCH /api/transactions/:id", "DELETE /api/transactions/:id",
   "GET /api/incomes", "POST /api/incomes",
   "GET /api/budgets", "POST /api/budgets", "PATCH /api/budgets/:id",
   "DELETE /api/budgets/:id",
   "GET /api/goals", "POST /api/goals", "PATCH /api/goals/:id", "DELETE /api/goals/:id",
   "GET /api/insights/spending", "GET /api/reports/spending",
   "GET /api/reports/download", "POST /api/backup", "POST /api/restore"}

\* C12: a request without an authenticated session to a protected route is
\* answered 401 with the message Unauthorized and nothing else, no entity
\* data, and leaves the store as it was.
C12_UnauthenticatedRejected ==
  [][(/\ now' = now
      /\ last'.op \in ProtectedRoutes
      /\ last'.userId = NoUser)
     => /\ last'.ret = Response(401, Message("Unauthorized"))
        /\ storage' = storage]_vars

\* a backup has been asked for without a session, of a store that holds rows
\* the answer could leak
C12_Witness ==
  /\ last.op = "POST /api/backup"
  /\ last.userId = NoUser
  /\ last.ret.status = 401
  /\ storage.transactions # <<>>
  /\ storage.budgets # <<>>

---------------------------------------------------------------------------
(* Properties of POST /api/restore *)

\* the body has no data object, or its data lacks one of the five keys or
\* holds something that is no array under it
Malformed(body) ==
  \/ ~body.hasData
  \/ \E k \in CollectionNames : k \notin DOMAIN body.data.arr

\* C14: an authenticated POST /api/restore whose data lacks one of the five
\* keys, or holds a non-array under one, is answered 400 and changes nothing
\* in the store: nothing deleted, nothing inserted, no notification. A body
\* with five arrays is never answered 400, whatever their elements are.
C14_RestoreValidated ==
  [][(/\ now' = now
      /\ last'.op = "POST /api/restore"
      /\ last'.userId # NoUser)
     => IF Malformed(last'.arg.body)
          THEN /\ last'.ret.status = 400
               /\ storage' = storage
          ELSE last'.ret.status # 400]_vars

\* a restore with a non-array under budgets was refused while its user holds
\* rows the restore would have deleted
C14_Witness ==
  /\ last.op = "POST /api/restore"
  /\ last.userId = 1
  /\ last.arg.body.data.others = {"budgets"}
  /\ last.ret.status = 400
  /\ getTransactions(storage, 1) # <<>>
  /\ getBudgets(storage, 1) # <<>>

\* a restore whose transactions hold an element the transaction schema
\* rejects was accepted, and the element is a row now
C14_WitnessUnvalidated ==
  /\ last.op = "POST /api/restore"
  /\ last.ret.status = 200
  /\ \E i \in DOMAIN storage.transactions :
       storage.transactions[i].val.category = NullValue

---------------------------------------------------------------------------
(* Accounts and sessions *)

\* the request bodies of POST /api/login
LoginBodies ==
  [username : {"ann", "zed"}, password : {"pw", "no"}]
  \cup {[username |-> "ann", password |-> ""], [username |-> "ann"]}

\* loginSchema.parse succeeds: username and password are texts of at least
\* one character
LoginSchemaSucceeds(body) ==
  /\ {"username", "password"} \subseteq DOMAIN body
  /\ body.username # ""
  /\ body.password # ""

\* a verify callback that looks at the username alone
LocalStrategyByName(S, username, password) == getUserByUsername(S, username)

\* the verify callback of the LocalStrategy: the user, or nothing for false
LocalStrategy(S, username, password) ==
  LET user == getUserByUsername(S, username)
  IN IF user = <<>> THEN <<>>
     ELSE IF user[1].password # password THEN <<>>
     ELSE user

serializeUser(user) == user.id

\* req.user of a request of client c: passport reads the id its session
\* holds and deserializes it; without a user the request is unauthenticated
ReqUser(S, sess, c) ==
  IF sess[c] # NoUser /\ deserializeUser(S, sess[c]) # <<>> THEN sess[c] ELSE NoUser

POST_login(S, sess, c, body) ==
  IF ~LoginSchemaSucceeds(body)
    THEN [session |-> sess, res |-> Response(400, Message("Validation error"))]
  ELSE LET user == LocalStrategy(S, body.username, body.password)
       IN IF user = <<>>
            THEN [session |-> sess,
                  res |-> Response(401, Message("Invalid username or password"))]
          ELSE [session |-> [sess EXCEPT ![c] = serializeUser(user[1])],
                res |-> Response(200, WithoutPassword(user[1]))]

POST_logout(sess, c) ==
  [session |-> [sess EXCEPT ![c] = NoUser],
   res |-> Response(200, Message("Logged out successfully"))]

HttpRegister ==
  /\ calls < MaxCalls
  /\ \E body \in RegisterBodies :
       LET r == POST_register(storage, body, now)
       IN Write(r.storage, Call("POST /api/register", NoUser, [body |-> body], r.res))

HttpLogin ==
  /\ calls < MaxCalls
  /\ \E c \in Clients, body \in LoginBodies :
       LET r == POST_login(storage, session, c, body)
       IN /\ session' = r.session
          /\ last' = Call("POST /api/login", ReqUser(storage, session, c),
                          [client |-> c, body |-> body], r.res)
  /\ calls' = calls + 1
  /\ UNCHANGED <<storage, now, restoring, panel>>

HttpLogout ==
  /\ calls < MaxCalls
  /\ \E c \in Clients :
       LET r == POST_logout(session, c)
       IN /\ session' = r.session
          /\ last' = Call("POST /api/logout", ReqUser(storage, session, c),
                          [client |-> c], r.res)
  /\ calls' = calls + 1
  /\ UNCHANGED <<storage, now, restoring, panel>>

HttpSessionMe ==
  /\ \E c \in Clients :
       last' = Call("GET /api/me", ReqUser(storage, session, c), [client |-> c],
                    GET_me(storage, ReqUser(storage, session, c)).res)
  /\ UNCHANGED <<storage, now, calls, session, restoring, panel>>

NextAccounts == Tick \/ HttpRegister \/ HttpLogin \/ HttpLogout \/ HttpSessionMe

SpecAccounts == Init /\ [][NextAccounts]_vars

---------------------------------------------------------------------------
(* Properties of registration *)

\* no two users share a username and no two share an email
UniqueAccounts ==
  \A i, j \in DOMAIN storage.users :
    i # j => /\ storage.users[i].val.username # storage.users[j].val.username
             /\ storage.users[i].val.email # storage.users[j].val.email

\* a username or an email of the body is held by a user of the store
Taken(S, body) ==
  \E i \in DOMAIN S.users :
    \/ S.users[i].val.username = body.username
    \/ S.users[i].val.email = body.email

\* C15: users stay apart in username and email; a registration whose username
\* or email is taken is answered 400 and creates neither a user nor a
\* notification; a successful one is answered 201 with the stored user record
\* without its password.
C15_Register ==
  /\ []UniqueAccounts
  /\ [][(/\ now' = now
         /\ last'.op = "POST /api/register"
         /\ ParseUserSucceeds(last'.arg.body))
        => IF Taken(storage, last'.arg.body)
             THEN /\ last'.ret.status = 400
                  /\ storage' = storage
             ELSE /\ last'.ret.status = 201
                  /\ Len(storage'.users) = Len(storage.users) + 1
                  /\ LET user == storage'.users[Len(storage'.users)].val
                     IN /\ user.username = last'.arg.body.username
                        /\ user.email = last'.arg.body.email
                        /\ DOMAIN last'.ret.body = DOMAIN user \ {"password"}
                        /\ last'.ret.body.createdAt = <<"ISO", user.createdAt>>
                        /\ \A k \in DOMAIN user \ {"password", "createdAt"} :
                             last'.ret.body[k] = user[k]]_vars

\* a registration with a fresh username and the email of the user already
\* there was refused
C15_Witness ==
  /\ last.op = "POST /api/register"
  /\ last.ret = Response(400, Message("Email already registered"))
  /\ Len(storage.users) = 1
  /\ storage.users[1].val.username # last.arg.body.username
  /\ Len(storage.notifications) = 1

---------------------------------------------------------------------------
(* Properties of the session protocol *)

\* the ids of the users that hold the username and the password of the body
AccountsOf(S, body) ==
  IF {"username", "password"} \subseteq DOMAIN body
    THEN {S.users[i].val.id : i \in {j \in DOMAIN S.users :
                                       /\ S.users[j].val.username = body.username
                                       /\ S.users[j].val.password = body.password}}
    ELSE {}

LoginStep == now' = now /\ last'.op = "POST /api/login"

\* GET /api/me answers by the session: 200 with the user the session holds,
\* without the password, and 401 when it holds none
MeBySession ==
  (now' = now /\ last'.op = "GET /api/me")
    => LET c == last'.arg.client
       IN IF session[c] # NoUser
            THEN last'.ret =
                   Response(200, WithoutPassword(MapGet(storage.users, session[c])))
            ELSE last'.ret.status = 401

\* the session of a client changes only by a successful login of that client,
\* which puts the user in, and by a logout of that client, which takes it out
SessionChanges ==
  \A c \in Clients :
    /\ session'[c] # session[c]
         => /\ last'.arg.client = c
            /\ \/ last'.op = "POST /api/login" /\ last'.ret.status = 200
               \/ last'.op = "POST /api/logout"
    /\ (now' = now /\ last'.op = "POST /api/logout" /\ last'.arg.client = c)
         => session'[c] = NoUser

\* C16 as stated: a login is answered 200 and authenticates the session
\* exactly when a user holds the given username and password, and 401
\* otherwise; GET /api/me follows the session; the session ends at logout and
\* stays ended until the next successful login.
C16_LoginOr401 ==
  [][/\ LoginStep
          => LET c == last'.arg.client
                 found == AccountsOf(storage, last'.arg.body)
             IN IF found # {}
                  THEN last'.ret.status = 200 /\ session'[c] \in found
                  ELSE last'.ret.status = 401 /\ session' = session
     /\ MeBySession
     /\ SessionChanges]_vars

\* C16, amended: a login whose username or password is missing or empty is
\* answered 400 and leaves the session as it was, whoever holds that username;
\* any other login is answered 200 and authenticates the session exactly when
\* a user holds the given username and password, and 401 otherwise, the
\* session left as it was; GET /api/me follows the session; the session ends
\* at logout and stays ended until the next successful login.
C16_SessionProtocol ==
  [][/\ LoginStep
          => LET c == last'.arg.client
                 found == AccountsOf(storage, last'.arg.body)
             IN IF ~LoginSchemaSucceeds(last'.arg.body)
                  THEN last'.ret.status = 400 /\ session' = session
                ELSE IF found # {}
                  THEN last'.ret.status = 200 /\ session'[c] \in found
                  ELSE last'.ret.status = 401 /\ session' = session
     /\ MeBySession
     /\ SessionChanges]_vars

\* a session that held a user was logged out, and holds none now
C16_Witness ==
  /\ last.op = "POST /api/logout"
  /\ last.userId # NoUser
  /\ session[last.arg.client] = NoUser

---------------------------------------------------------------------------
(* The routes asked by registered users *)

\* a store in use by its only user: two expenses, a budget and a goal, each
\* made through its route, and the welcome notification marked as read
PopulatedSolo ==
  LET S1 == POST_register(NewMemStorage,
                          [username |-> "ann", email |-> "a@x", password |-> "pw"],
                          1).storage
      S2 == POST_transactions(S1, 1, [amount |-> 150, category |-> "food",
                                      description |-> "meal", type |-> "expense"],
                              1).storage
      S3 == POST_transactions(S2, 1, [amount |-> 100, category |-> "food",
                                      description |-> "meal", type |-> "expense"],
                              1).storage
      S4 == POST_budgets(S3, 1, [category |-> "food", amount |-> 50,
                                 period |-> "monthly"]).storage
      S5 == POST_goals(S4, 1, [name |-> "trip", targetAmount |-> 500]).storage
  IN POST_notifications_id_read(S5, 1, <<"1">>).storage

InitSolo ==
  /\ storage = PopulatedSolo
  /\ now = 1
  /\ last = Call("new", 0, <<>>, <<>>)
  /\ session = NewSessionStore
  /\ restoring = <<>>
  /\ panel = NewPanel
  /\ calls = 1

\* req.user is what deserializeUser found for the session: a request is made
\* in the name of a user of the store, or of none
ByRegisteredUser == ReqUser(storage, [c \in Clients |-> last'.userId], "c1") = last'.userId

NextRegistered ==
  \/ Tick
  \/ HttpRegister
  \/ HttpPostTransaction /\ ByRegisteredUser
  \/ HttpPatchTransaction /\ ByRegisteredUser
  \/ HttpDeleteTransaction /\ ByRegisteredUser
  \/ HttpPostIncome /\ ByRegisteredUser
  \/ HttpPostCategory /\ ByRegisteredUser
  \/ HttpPostBudget /\ ByRegisteredUser
  \/ HttpPatchBudget /\ ByRegisteredUser
  \/ HttpDeleteBudget /\ ByRegisteredUser
  \/ HttpPostGoal /\ ByRegisteredUser
  \/ HttpPatchGoal /\ ByRegisteredUser
  \/ HttpDeleteGoal /\ ByRegisteredUser
  \/ HttpPostNotification /\ ByRegisteredUser
  \/ HttpReadNotification /\ ByRegisteredUser
  \/ HttpReadAllNotifications /\ ByRegisteredUser
  \/ HttpRestore /\ ByRegisteredUser

SpecRegistered == InitSolo /\ [][NextRegistered]_vars

---------------------------------------------------------------------------
(* Properties of owners and identifiers *)

\* the rows of the six collections that carry a userId
OwnedRows(S) ==
  UNION {Range(MapValues(S[k])) :
           k \in {"notifications", "transactions", "categories", "incomes",
                  "budgets", "goals"}}

\* C17: every transaction, income, budget, goal, category and notification of
\* the store has the userId of a user of the store.
C17_OwnersExist == \A row \in OwnedRows(storage) : getUser(storage, row.userId) # <<>>

\* the seven maps of the store
EntityTypes == CollectionNames \cup {"users", "notifications"}

\* the id the next entity of a type gets
NextId(S, k) ==
  CASE k = "users" -> S.currentUserId
    [] k = "notifications" -> S.currentNotificationId
    [] OTHER -> Counter(S, k)

\* C18: per entity type, no two stored entities have the same id, and the id
\* the next entity gets is greater than the id of every stored entity.
C18_IdsUniqueIncreasing ==
  \A k \in EntityTypes :
    \A i \in DOMAIN storage[k] :
      /\ storage[k][i].val.id < NextId(storage, k)
      /\ \A j \in DOMAIN storage[k] :
           i # j => storage[k][i].val.id # storage[k][j].val.id

---------------------------------------------------------------------------
(* Properties of the read flag *)

\* the creator of the step's notification passed read = true
PassedRead ==
  /\ last'.op = "POST /api/notifications"
  /\ "read" \in DOMAIN last'.arg.body
  /\ last'.arg.body.read = TRUE

\* C19: a notification is created unread unless its creator passes read =
\* true, and a notification that is read stays read in every later state that
\* still holds it, whatever the operation: mark-read, mark-all-read, restore,
\* creates.
C19_ReadMonotonic ==
  [][/\ \A i \in DOMAIN storage.notifications :
          LET e == storage.notifications[i]
          IN (e.val.read /\ MapHas(storage'.notifications, e.key))
               => MapGet(storage'.notifications, e.key).read
     /\ \A j \in DOMAIN storage'.notifications :
          LET e == storage'.notifications[j]
          IN ~MapHas(storage.notifications, e.key) => (e.val.read <=> PassedRead)]_vars

\* a restore went through beside a notification that was read before it: the
\* notification is still read, and the one the restore made is unread
C19_Witness ==
  /\ last.op = "POST /api/restore"
  /\ last.ret.status = 200
  /\ MapGet(storage.notifications, 1).read
  /\ \E i \in DOMAIN storage.notifications :
       /\ storage.notifications[i].val.message = "Your data has been successfully restored."
       /\ ~storage.notifications[i].val.read

---------------------------------------------------------------------------
(* restoreBackup, call by call: two calls interleaved at their awaits *)
(*                                                                         *)
(* An async method of MemStorage runs its body when it is called, so the   *)
(* code between two awaits of restoreBackup is one step: the call and its  *)
(* first read; each further read; the five deletes with the first insert;  *)
(* each further insert. The calls in flight take their steps in turn, in   *)
(* the order of the microtask queue.                                       *)

\* the order in which restoreBackup reads, deletes and inserts
CollectionOrder == <<"transactions", "incomes", "budgets", "goals", "categories">>

\* the backups given to the two calls: rows told apart by their amount and
\* name, `n` transactions in each
RaceBackup(a, name, n) ==
  [transactions |-> [i \in 1..n |->
                       [id |-> i, userId |-> 1, amount |-> a, category |-> "food",
                        type |-> "expense", date |-> 1, note |-> NullValue]],
   incomes |-> <<[id |-> 1, userId |-> 1, amount |-> a, date |-> 1]>>,
   budgets |-> <<[id |-> 1, userId |-> 1, category |-> "food", amount |-> a]>>,
   goals |-> <<[id |-> 1, userId |-> 1, currentAmount |-> a]>>,
   categories |-> <<[id |-> 1, userId |-> 1, name |-> name, createdAt |-> 1,
                     type |-> "expense"]>>]

\* the items of data in the order restoreBackup inserts them
RECURSIVE ItemsFrom(_, _)
ItemsFrom(data, n) ==
  IF n > Len(CollectionOrder) THEN <<>>
  ELSE LET k == CollectionOrder[n]
       IN (IF HasArray(data, k)
             THEN [i \in DOMAIN data.arr[k] |-> [kind |-> k, item |-> data.arr[k][i]]]
             ELSE <<>>)
          \o ItemsFrom(data, n + 1)

\* this.getTransactions(userId), getIncomes, getBudgets, getGoals, getCategories
ReadOf(S, k, userId) ==
  CASE k = "transactions" -> getTransactions(S, userId)
    [] k = "incomes" -> getIncomes(S, userId)
    [] k = "budgets" -> getBudgets(S, userId)
    [] k = "goals" -> getGoals(S, userId)
    [] k = "categories" -> getCategories(S, userId)

\* this.createTransaction({ ...item, userId }) and its four siblings
CreateOf(S, k, item, userId, clock) ==
  CASE k = "transactions" -> createTransaction(S, WithUser(item, userId), clock)
    [] k = "incomes" -> createIncome(S, WithUser(item, userId), clock)
    [] k = "budgets" -> createBudget(S, WithUser(item, userId))
    [] k = "goals" -> createGoal(S, WithUser(item, userId))
    [] k = "categories" -> createCategory(S, WithUser(item, userId), clock)

\* a call of restoreBackup(userId, data) that has not been made yet
NewRestore(userId, data) ==
  [userId |-> userId, data |-> data, pc |-> "new", reads |-> 0,
   lists |-> [k \in CollectionNames |-> <<>>], todo |-> ItemsFrom(data, 1)]

\* the five forEach(delete) over the lists the call read
RemoveRead(S, lists) ==
  [S EXCEPT !.transactions = DeleteEach(@, lists.transactions),
            !.incomes = DeleteEach(@, lists.incomes),
            !.budgets = DeleteEach(@, lists.budgets),
            !.goals = DeleteEach(@, lists.goals),
            !.categories = DeleteEach(@, lists.categories)]

\* the call reads the next of its five lists and waits
ReadNext(S, r) ==
  LET k == CollectionOrder[r.reads + 1]
  IN [r EXCEPT !.lists[k] = ReadOf(S, k, r.userId),
               !.reads = @ + 1,
               !.pc = IF r.reads + 1 = Len(CollectionOrder) THEN "remove" ELSE "read"]

\* the call inserts the first item it has left and waits, or returns
InsertNext(S, r, clock) ==
  IF r.todo = <<>> THEN [storage |-> S, restore |-> [r EXCEPT !.pc = "done"]]
  ELSE [storage |-> CreateOf(S, Head(r.todo).kind, Head(r.todo).item, r.userId, clock),
        restore |-> [r EXCEPT !.todo = Tail(@),
                              !.pc = IF Tail(r.todo) = <<>> THEN "done" ELSE "insert"]]

\* the microtask queue after the call at its head ran: an await on a promise
\* that is already settled queues the continuation at once, behind the others
Requeue(queue, p, r) == IF r.pc = "done" THEN Tail(queue) ELSE Append(Tail(queue), p)

\* some code calls restoreBackup: the call runs up to its first await, which
\* is the first read, and its continuation joins the microtask queue
RestoreCall ==
  /\ \E p \in DOMAIN restoring.call :
       /\ restoring.call[p].pc = "new"
       /\ restoring' = [call |-> [restoring.call EXCEPT ![p] = ReadNext(storage, @)],
                        microtasks |-> Append(restoring.microtasks, p)]
  /\ UNCHANGED <<storage, now, last, calls, session, panel>>

\* the call at the head of the queue goes on to its next await: a read
RestoreRead ==
  /\ restoring.microtasks # <<>>
  /\ LET p == Head(restoring.microtasks)
         r == ReadNext(storage, restoring.call[p])
     IN /\ restoring.call[p].pc = "read"
        /\ restoring' = [call |-> [restoring.call EXCEPT ![p] = r],
                         microtasks |-> Requeue(restoring.microtasks, p, r)]
  /\ UNCHANGED <<storage, now, last, calls, session, panel>>

\* after the fifth read: the deletes, and the first insert
RestoreRemove ==
  /\ restoring.microtasks # <<>>
  /\ LET p == Head(restoring.microtasks)
         next == InsertNext(RemoveRead(storage, restoring.call[p].lists),
                            restoring.call[p], now)
     IN /\ restoring.call[p].pc = "remove"
        /\ storage' = next.storage
        /\ restoring' = [call |-> [restoring.call EXCEPT ![p] = next.restore],
                         microtasks |-> Requeue(restoring.microtasks, p, next.restore)]
  /\ UNCHANGED <<now, last, calls, session, panel>>

\* after the await of an insert: the next insert
RestoreInsert ==
  /\ restoring.microtasks # <<>>
  /\ LET p == Head(restoring.microtasks)
         next == InsertNext(storage, restoring.call[p], now)
     IN /\ restoring.call[p].pc = "insert"
        /\ storage' = next.storage
        /\ restoring' = [call |-> [restoring.call EXCEPT ![p] = next.restore],
                         microtasks |-> Requeue(restoring.microtasks, p, next.restore)]
  /\ UNCHANGED <<now, last, calls, session, panel>>

\* the store of PopulatedSolo, and two calls for its user yet to be made
InitRace ==
  /\ storage = PopulatedSolo
  /\ panel = NewPanel
  /\ now = 1
  /\ last = Call("new", 0, <<>>, <<>>)
  /\ session = NewSessionStore
  /\ calls = 1
  /\ \E n1, n2 \in 1..MaxBackupRows :
       restoring =
         [call |-> <<NewRestore(1, AsData(RaceBackup(11, "One", n1), CollectionNames)),
                     NewRestore(1, AsData(RaceBackup(22, "Two", n2), CollectionNames))>>,
          microtasks |-> <<>>]

NextRace == RestoreCall \/ RestoreRead \/ RestoreRemove \/ RestoreInsert

SpecRace == InitRace /\ [][NextRace]_vars

---------------------------------------------------------------------------
(* Properties of concurrent restores *)

BothDone == \A p \in DOMAIN restoring.call : restoring.call[p].pc = "done"

\* the rows a restore of data alone leaves the user with, ids ignored
RowsOf(data, k) == BagIgnoringIds(data.arr[k])

\* C20: when two restoreBackup calls for one user, with backups d1 and d2,
\* have both completed, each of the user's five collections holds the rows of
\* exactly one of d1 and d2.
C20_LastWriteWins ==
  BothDone =>
    \A k \in CollectionNames :
      BagIgnoringIds(ReadOf(storage, k, 1))
        \in {RowsOf(restoring.call[p].data, k) : p \in DOMAIN restoring.call}

---------------------------------------------------------------------------
(* Properties of the list routes *)

\* the collection a list route reads
ListedCollection(op) ==
  CASE op = "GET /api/transactions" -> "transactions"
    [] op = "GET /api/incomes" -> "incomes"
    [] op = "GET /api/budgets" -> "budgets"
    [] op = "GET /api/goals" -> "goals"
    [] op = "GET /api/categories" -> "categories"
    [] op = "GET /api/notifications" -> "notifications"

ListRoutes ==
  {"GET /api/transactions", "GET /api/incomes", "GET /api/budgets", "GET /api/goals",
   "GET /api/categories", "GET /api/notifications"}

\* the store without the rows of the users other than u
WithoutOthers(S, u) ==
  LET Own(m) == SelectSeq(m, LAMBDA e : e.val.userId = u)
  IN [S EXCEPT !.notifications = Own(@), !.transactions = Own(@),
               !.categories = Own(@), !.incomes = Own(@), !.budgets = Own(@),
               !.goals = Own(@)]

\* what a list route or the backup route answers user u from store S
ListAnswer(S, op, u) ==
  CASE op = "GET /api/transactions" -> GET_transactions(S, u).res
    [] op = "GET /api/incomes" -> GET_incomes(S, u).res
    [] op = "GET /api/budgets" -> GET_budgets(S, u).res
    [] op = "GET /api/goals" -> GET_goals(S, u).res
    [] op = "GET /api/categories" -> GET_categories(S, u).res
    [] op = "GET /api/notifications" -> GET_notifications(S, u).res
    [] op = "POST /api/backup" -> POST_backup(S, u).res

\* a list holds one row for each row of user u in collection k, and no other
ExactlyOwn(list, S, k, u) ==
  /\ \A i \in DOMAIN list : list[i].userId = u
  /\ Len(list) = Cardinality({i \in DOMAIN S[k] : S[k][i].val.userId = u})
  /\ \A i \in DOMAIN S[k] :
       S[k][i].val.userId = u => \E j \in DOMAIN list : list[j].id = S[k][i].val.id

\* C21: in every store, a list route and the backup route answer an
\* authenticated user u with exactly the stored rows whose userId is u, and
\* the answer is the one the store would give if the other users owned
\* nothing.
C21_ReadIsolation ==
  \A u \in Users, op \in ListRoutes \cup {"POST /api/backup"} :
    LET answer == ListAnswer(storage, op, u)
    IN /\ answer.status = 200
       /\ answer = ListAnswer(WithoutOthers(storage, u), op, u)
       /\ IF op = "POST /api/backup"
            THEN \A k \in CollectionNames : ExactlyOwn(answer.body[k], storage, k, u)
            ELSE ExactlyOwn(answer.body, storage, ListedCollection(op), u)

\* user 1 listed its transactions while user 2 owned one too
C21_Witness ==
  /\ last.op = "GET /api/transactions"
  /\ last.userId = 1
  /\ last.ret.status = 200
  /\ last.ret.body # <<>>
  /\ getTransactions(storage, 2) # <<>>

---------------------------------------------------------------------------
(* Properties of the partial updates *)

\* the four update methods, by the map they write
UpdateOf(S, k, id, update) ==
  CASE k = "transactions" -> updateTransaction(S, id, update)
    [] k = "incomes" -> updateIncome(S, id, update)
    [] k = "budgets" -> updateBudget(S, id, update)
    [] k = "goals" -> updateGoal(S, id, update)

UpdatesOf(k) ==
  CASE k = "transactions" -> TransactionUpdates
    [] k = "incomes" -> IncomeUpdates
    [] k = "budgets" -> BudgetUpdates
    [] k = "goals" -> GoalUpdates

\* the ids an update is tried on: the ids in use, and one past them
UpdateIds == Ids \cup {MaxCalls + 1}

\* S1 is S but for the row under id in map k, which holds the fields of the
\* update and, for the rest, what it held
OnlyNamedFieldsChanged(S, S1, k, id, update) ==
  LET row == MapGet(S[k], id)
      new == MapGet(S1[k], id)
  IN /\ \A f \in DOMAIN S \ {k} : S1[f] = S[f]
     /\ Len(S1[k]) = Len(S[k])
     /\ \A i \in DOMAIN S[k] :
          /\ S1[k][i].key = S[k][i].key
          /\ S[k][i].key # id => S1[k][i] = S[k][i]
     /\ DOMAIN new = DOMAIN row \cup DOMAIN update
     /\ \A f \in DOMAIN update : new[f] = update[f]
     /\ \A f \in DOMAIN row \ DOMAIN update : new[f] = row[f]

\* C22: in every store, a partial update on an id the map holds changes the
\* fields the update names and nothing else: no other field of the row, no
\* other row, no other map, no counter; it returns the updated row. On an id
\* the map does not hold it returns undefined and changes nothing.
C22_PartialUpdateFrame ==
  \A k \in {"transactions", "incomes", "budgets", "goals"} :
    \A id \in UpdateIds, update \in UpdatesOf(k) :
      LET S1 == UpdateOf(storage, k, id, update)
          result == updateResult(storage[k], id, update)
      IN IF MapHas(storage[k], id)
           THEN /\ OnlyNamedFieldsChanged(storage, S1, k, id, update)
                /\ result = <<MapGet(S1[k], id)>>
           ELSE S1 = storage /\ result = <<>>

\* an update has acted on one of two transactions: the row under key 1 bears
\* the id the update named and the amount it was created with, the row under
\* key 2 is as it was created
C22_Witness ==
  /\ last.op = "PATCH /api/transactions/:id"
  /\ last.ret.status = 200
  /\ MapGet(storage.transactions, 1).id = 2
  /\ MapGet(storage.transactions, 1).amount = 150
  /\ MapGet(storage.transactions, 2) = MapGet(PopulatedSolo.transactions, 2)

\* ---------------------------------------------------------------------------
\* Properties of the identity of a row
\* ---------------------------------------------------------------------------

\* the collections a PATCH route can reach
PatchedCollections == {"transactions", "budgets", "goals"}

\* every row of m is stored under its own id
KeysAreIds(m) == \A i \in 1..Len(m) : m[i].val.id = m[i].key

\* a row that stays under its key from S to S1 keeps its id and its owner
IdentityKept(S, S1, k) ==
  \A key \in MapKeys(S[k]) \cap MapKeys(S1[k]) :
    /\ MapGet(S1[k], key).id = MapGet(S[k], key).id
    /\ MapGet(S1[k], key).userId = MapGet(S[k], key).userId

\* a step of one of the three PATCH routes
PatchStep ==
  /\ now' = now
  /\ last'.op \in {"PATCH /api/transactions/:id", "PATCH /api/budgets/:id",
                   "PATCH /api/goals/:id"}

\* C23: a PATCH on /api/transactions/:id, /api/budgets/:id or /api/goals/:id
\* never changes the id or the userId of a row: every row is stored under the
\* key equal to its id field, and a row keeps the owner it had before the step.
C23_IdentityImmutable ==
  /\ [](\A k \in PatchedCollections : KeysAreIds(storage[k]))
  /\ [][PatchStep => \A k \in PatchedCollections : IdentityKept(storage, storage', k)]_vars

\* ---------------------------------------------------------------------------
\* Properties of the frame of a restore
\* ---------------------------------------------------------------------------

\* calls on the store of two users who both own rows
NextRestore ==
  \/ Tick
  \/ UpdateTransaction
  \/ CreateCategory
  \/ CreateBackup
  \/ RestoreBackup

SpecRestore == InitPopulated /\ [][NextRestore]_vars

\* the entries of a map that user u does not own, keys included, in map order
EntriesOfOthers(m, u) == SelectSeq(m, LAMBDA e : e.val.userId # u)

\* C24: restoreBackup(u, data) changes only rows that u owns in the five
\* collections: the users, all notifications and every row whose userId is
\* not u are the same after the call as before it, whatever data holds.
C24_RestoreFrame ==
  [][\A u \in Users, input \in RestoreInputs :
       RestoreStep(u, input) =>
         /\ storage'.users = storage.users
         /\ storage'.notifications = storage.notifications
         /\ \A k \in CollectionNames :
              EntriesOfOthers(storage'[k], u) = EntriesOfOthers(storage[k], u)]_vars

\* ---------------------------------------------------------------------------
\* Properties of a repeated restore
\* ---------------------------------------------------------------------------

\* the instants at which a call that follows one made at `clock` can run
Later(clock) == clock..MaxTime

\* the store after restoreBackup(u, data) at `clock` and again at `again`
RestoredTwice(S, u, data, clock, again) ==
  restoreBackup(restoreBackup(S, u, data, clock).storage, u, data, again).storage

\* C25: restore is idempotent up to ids: for data that holds all five arrays,
\* restoreBackup(u, data) run twice in a row leaves u, in each of the five
\* collections, with the same multiset of rows, ids ignored, as one run.
C25_RestoreIdempotent ==
  \A u \in Users, v \in Users, again \in Later(now) :
    LET data == DataOf(storage, WholeBackupOf(v))
        once == restoreBackup(storage, u, data, now).storage
        twice == RestoredTwice(storage, u, data, now, again)
    IN \A k \in CollectionNames :
         BagIgnoringIds(createBackup(twice, u)[k])
           = BagIgnoringIds(createBackup(once, u)[k])

\* ---------------------------------------------------------------------------
\* Properties of a restore from the JSON of a backup
\* ---------------------------------------------------------------------------

\* the body of POST /api/restore that holds what POST /api/backup answered u
OwnBackupBody(S, u) ==
  RestoreBodyOf(S, [data |-> TRUE, from |-> u, keys |-> CollectionNames,
                    others |-> {}, extra |-> FALSE, twins |-> FALSE])

\* u, who owns two or more transactions, has just sent its own backup to
\* POST /api/restore
RestoredOwnBackup(u) ==
  /\ now' = now
  /\ Len(getTransactions(storage, u)) >= 2
  /\ POST_backup(storage, u).res.status = 200
  /\ last'.op = "POST /api/restore"
  /\ last'.userId = u
  /\ last'.arg.body = OwnBackupBody(storage, u)

\* C26: after a user with two or more transactions has restored the unchanged
\* JSON of its backup, its next GET /api/transactions,
\* GET /api/insights/spending, POST /api/backup and POST /api/restore are
\* answered 200.
C26_ServesAfterRoundTrip ==
  [][\A u \in Users :
       RestoredOwnBackup(u) =>
         /\ last'.ret.status = 200
         /\ GET_transactions(storage', u).res.status = 200
         /\ GET_insights_spending(storage', u).res.status = 200
         /\ POST_backup(storage', u).res.status = 200
         /\ POST_restore(storage', u, last'.arg.body, now').res.status = 200]_vars

\* ---------------------------------------------------------------------------
\* Properties of category names
\* ---------------------------------------------------------------------------

\* no user owns two categories whose names are equal ignoring letter case
NoTwinCategories ==
  \A i, j \in DOMAIN storage.categories :
    LET a == storage.categories[i].val
        b == storage.categories[j].val
    IN (a.userId = b.userId /\ toLowerCase(a.name) = toLowerCase(b.name)) => i = j

\* an authenticated POST /api/categories with a name the caller already uses
UsedNamePosted ==
  /\ now' = now
  /\ last'.op = "POST /api/categories"
  /\ last'.userId # NoUser
  /\ "name" \in DOMAIN last'.arg.body
  /\ getCategoryByName(storage, last'.userId, last'.arg.body.name) # <<>>

\* C27: in every state reachable through the API no user owns two categories
\* whose names are equal ignoring letter case, and POST /api/categories with a
\* name the caller already uses is answered 400 and creates nothing.
C27_CategoryNamesUnique ==
  /\ []NoTwinCategories
  /\ [][UsedNamePosted => (last'.ret.status = 400 /\ storage' = storage)]_vars

\* ---------------------------------------------------------------------------
\* Properties that relate the two aggregates
\* ---------------------------------------------------------------------------

\* the sum of the values of the records of getSpendingByCategory
RECURSIVE SumOfRecords(_)
SumOfRecords(records) ==
  IF records = <<>> THEN 0 ELSE Head(records).value + SumOfRecords(Tail(records))

\* C28: for every store and user u, getSpendingByCategory(u) and
\* getSpendingReport(u) agree: the categories of the first are the keys of
\* byCategory of the second, each record's value is byCategory[category], and
\* the values of the records add up to total.
C28_AggregatesAgree ==
  \A u \in Users :
    LET records == getSpendingByCategory(storage, u)
        report == getSpendingReport(storage, u)
    IN /\ {records[i].category : i \in DOMAIN records} = MapKeys(report.byCategory)
       /\ \A i \in DOMAIN records :
            /\ MapHas(report.byCategory, records[i].category)
            /\ records[i].value = MapGet(report.byCategory, records[i].category)
       /\ SumOfRecords(records) = report.total

\* ---------------------------------------------------------------------------
\* Properties of the large-expense notification
\* ---------------------------------------------------------------------------

\* an authenticated POST /api/transactions has just been answered
TransactionPosted ==
  /\ now' = now
  /\ last'.op = "POST /api/transactions"
  /\ last'.userId # NoUser

\* the notifications the step added, in the order of their creation
AddedNotifications ==
  SubSeq(storage'.notifications, Len(storage.notifications) + 1,
         Len(storage'.notifications))

\* the step left every notification it found as it was
OldNotificationsKept ==
  /\ Len(storage'.notifications) >= Len(storage.notifications)
  /\ SubSeq(storage'.notifications, 1, Len(storage.notifications)) = storage.notifications

\* C29: a POST /api/transactions answered 201 creates one transaction and, when
\* its type is expense and its amount is above 100, exactly one unread
\* notification for the caller; for an amount of 100 or less or another type it
\* creates no notification. A request answered 400 creates neither.
C29_LargeExpenseNotified ==
  [][TransactionPosted =>
       /\ last'.ret.status \in {201, 400}
       /\ OldNotificationsKept
       /\ last'.ret.status = 201 =>
            /\ Len(storage'.transactions) = Len(storage.transactions) + 1
            /\ IF last'.ret.body.type = "expense" /\ last'.ret.body.amount > 100
                 THEN /\ Len(AddedNotifications) = 1
                      /\ AddedNotifications[1].val.userId = last'.userId
                      /\ AddedNotifications[1].val.read = FALSE
                 ELSE AddedNotifications = <<>>
       /\ last'.ret.status = 400 => storage' = storage]_vars

\* an expense of 150 was posted and left the caller one unread notification,
\* after an expense of 100 had left none
C29_Witness ==
  /\ last.op = "POST /api/transactions"
  /\ last.ret.status = 201
  /\ last.ret.body.amount = 150
  /\ last.ret.body.type = "expense"
  /\ Len(storage.transactions) = 2
  /\ MapGet(storage.transactions, 1).amount = 100
  /\ Len(storage.notifications) = 1
  /\ storage.notifications[1].val.userId = last.userId
  /\ ~storage.notifications[1].val.read

\* ---------------------------------------------------------------------------
\* The client's BackupRestorePanel
\* ---------------------------------------------------------------------------

\* the user the panel's session cookie stands for
PanelUser == 1

\* the data of a backup with no rows, and of a backup of one category
EmptyBackup == [null |-> FALSE, arr |-> [k \in CollectionNames |-> <<>>], others |-> {}]

CategoryBackup ==
  [EmptyBackup EXCEPT !.arr.categories = <<[name |-> "Food", type |-> "expense"]>>]

\* what the user can paste into the textarea or upload as a file
RestoreTexts == {"", "oops", "null", "42", "[]", "{}", "empty backup", "category backup"}

\* JSON.parse(text): whether it throws a SyntaxError, whether the value is
\* truthy and of typeof "object", and the value where it is an object
JSONParse(text) ==
  CASE text \in {"", "oops"} -> [threw |-> TRUE, object |-> FALSE, data |-> NullData]
    [] text = "null" -> [threw |-> FALSE, object |-> FALSE, data |-> NullData]
    [] text = "42" -> [threw |-> FALSE, object |-> FALSE, data |-> NullData]
    [] text \in {"[]", "{}"} ->
         [threw |-> FALSE, object |-> TRUE,
          data |-> [null |-> FALSE, arr |-> <<>>, others |-> {}]]
    [] text = "empty backup" -> [threw |-> FALSE, object |-> TRUE, data |-> EmptyBackup]
    [] text = "category backup" ->
         [threw |-> FALSE, object |-> TRUE, data |-> CategoryBackup]

\* the try block of handleRestore reaches window.confirm
ValidRestoreData(text) == ~JSONParse(text).threw /\ JSONParse(text).object

\* a button that is disabled only while there is nothing to restore
DisabledWhenEmpty(p) == p.restoreData = ""

\* disabled={!restoreData || restoreMutation.isPending}
Disabled(p) == p.restoreData = "" \/ p.isPending

\* onChange of the textarea, and reader.onload of the file input
SetRestoreData ==
  /\ \E text \in RestoreTexts : panel' = [panel EXCEPT !.restoreData = text]
  /\ last' = Call("setRestoreData", PanelUser, <<>>, <<>>)
  /\ UNCHANGED <<storage, now, calls, session, restoring>>

\* a click on the enabled button whose handleRestore ends in the toast:
\* JSON.parse threw, or the value is no object
ClickInvalid ==
  /\ ~Disabled(panel)
  /\ ~ValidRestoreData(panel.restoreData)
  /\ last' = Call("handleRestore", PanelUser,
                  [text |-> panel.restoreData, confirmed |-> FALSE], "toast")
  /\ UNCHANGED <<storage, now, calls, session, restoring, panel>>

\* a click on the enabled button, and Cancel in window.confirm
ClickDeclined ==
  /\ ~Disabled(panel)
  /\ ValidRestoreData(panel.restoreData)
  /\ last' = Call("handleRestore", PanelUser,
                  [text |-> panel.restoreData, confirmed |-> FALSE], "declined")
  /\ UNCHANGED <<storage, now, calls, session, restoring, panel>>

\* a click on the enabled button, and OK in window.confirm:
\* restoreMutation.mutate(data) sends POST /api/restore with {data}
ClickConfirmed ==
  /\ calls < MaxRequests
  /\ ~Disabled(panel)
  /\ ValidRestoreData(panel.restoreData)
  /\ panel' = [panel EXCEPT
                 !.isPending = TRUE,
                 !.requests = Append(@, [hasData |-> TRUE,
                                         data |-> JSONParse(panel.restoreData).data])]
  /\ calls' = calls + 1
  /\ last' = Call("handleRestore", PanelUser,
                  [text |-> panel.restoreData, confirmed |-> TRUE], "sent")
  /\ UNCHANGED <<storage, now, session, restoring>>

\* the server handles the oldest request in flight and the mutation settles:
\* onSuccess clears restoreData, onError leaves it
RestoreSettled ==
  /\ panel.requests # <<>>
  /\ LET r == POST_restore(storage, PanelUser, Head(panel.requests), now)
     IN /\ storage' = r.storage
        /\ panel' = [restoreData |-> IF r.res.status = 200 THEN "" ELSE panel.restoreData,
                     isPending |-> Len(panel.requests) > 1,
                     requests |-> Tail(panel.requests)]
        /\ last' = Call("POST /api/restore", PanelUser, <<>>, r.res)
  /\ UNCHANGED <<now, calls, session, restoring>>

InitPanel ==
  /\ storage = PopulatedSolo
  /\ now = 1
  /\ last = Call("new", 0, <<>>, <<>>)
  /\ session = NewSessionStore
  /\ restoring = <<>>
  /\ panel = NewPanel
  /\ calls = 0

NextPanel ==
  \/ Tick
  \/ SetRestoreData
  \/ ClickInvalid
  \/ ClickDeclined
  \/ ClickConfirmed
  \/ RestoreSettled

SpecPanel == InitPanel /\ [][NextPanel]_vars

\* the step sent a restore request
RequestSent == Len(panel'.requests) > Len(panel.requests)

\* the step is a click on the restore button
Clicked == now' = now /\ last'.op = "handleRestore"

\* C30: the panel sends POST /api/restore only from a click whose restoreData
\* parsed to a non-null object and whose confirmation the user accepted; a
\* click whose parse fails or whose confirmation is declined sends nothing
\* and leaves the store as it is; and no restore request is sent while
\* another is pending, so two are never in flight.
C30_RestoreGuarded ==
  /\ [](Len(panel.requests) <= 1)
  /\ [][RequestSent =>
          /\ Clicked
          /\ ValidRestoreData(last'.arg.text)
          /\ last'.arg.text = panel.restoreData
          /\ last'.arg.confirmed
          /\ ~panel.isPending]_vars
  /\ [][(Clicked /\ (~ValidRestoreData(last'.arg.text) \/ ~last'.arg.confirmed))
          => (panel'.requests = panel.requests /\ storage' = storage)]_vars

\* a click was confirmed: its restore request is in flight and the button is
\* disabled
C30_Witness ==
  /\ last.op = "handleRestore"
  /\ last.ret = "sent"
  /\ Len(panel.requests) = 1
  /\ Disabled(panel)
  /\ calls = 1
====
